---- MODULE Spec2Model ----
(***************************************************************************)
(* headsup: check orchestration, state store and notification queue.       *)
(*                                                                         *)
(* Several headsup processes (one command invocation each) share one state *)
(* document on disk (state.json) and one advisory lock file (state.lock).  *)
(* A process loads the document under the lock, changes its in-memory copy *)
(* and writes it back with fs::write, which truncates the file and then    *)
(* writes the serialized text.                                             *)
(***************************************************************************)
EXTENDS Integers, Sequences, FiniteSets, TLC

\* ---------------------------------------------------------------- bounds
NumProcs == 2
MaxRuns == 2
LockWaitTicks == 2
MaxSearchesPerRun == 1
MaxConsecutiveFailures == 1
MaxHistoryEntries == 1
WriteChunk == 2

\* ------------------------------------------------------ program constants
STATE_VERSION == 1
NumSubjects == 3
UnknownKey == 9

Procs == 1..NumProcs
NoTime == 0
NoneStr == "none"

\* config.subjects, in configuration order
SubjectType(id) == IF id = 1 THEN "release" ELSE IF id = 2 THEN "question" ELSE "recurring"

ConfigA ==
  [subjects |-> <<[id |-> 1, subject_type |-> SubjectType(1), enabled |-> TRUE],
                  [id |-> 2, subject_type |-> SubjectType(2), enabled |-> TRUE],
                  [id |-> 3, subject_type |-> SubjectType(3), enabled |-> TRUE]>>,
   max_searches_per_run |-> MaxSearchesPerRun,
   max_consecutive_failures |-> MaxConsecutiveFailures,
   total_run_timeout_seconds |-> 0,
   max_history_entries |-> MaxHistoryEntries,
   digest_mode |-> FALSE]

ConfigB ==
  [subjects |-> <<[id |-> 1, subject_type |-> SubjectType(1), enabled |-> TRUE],
                  [id |-> 2, subject_type |-> SubjectType(2), enabled |-> TRUE],
                  [id |-> 3, subject_type |-> SubjectType(3), enabled |-> FALSE]>>,
   max_searches_per_run |-> MaxSearchesPerRun + 1,
   max_consecutive_failures |-> MaxConsecutiveFailures + 1,
   total_run_timeout_seconds |-> 600,
   max_history_entries |-> MaxHistoryEntries,
   digest_mode |-> TRUE]

Configs == {ConfigA, ConfigB}

\* ------------------------------------------------------------ data model
DefaultState ==
  [version |-> STATE_VERSION, last_run |-> NoTime,
   subjects |-> [x \in {} |-> 0], pending_notifications |-> <<>>]

\* the fields a finding sets: the value (known_release_date, current_answer
\* or next_occurrence_date), its precision, the confidence and is_definitive
NoData ==
  [value |-> NoneStr, precision |-> "unknown", confidence |-> "unknown",
   definitive |-> FALSE]

DefaultSubjectState(variant) ==
  [variant |-> variant, last_checked |-> NoTime, data |-> NoData,
   last_notified |-> NoTime, consecutive_failures |-> 0,
   last_failure_reason |-> NoneStr, last_failure_time |-> NoTime,
   history |-> <<>>]

consecutive_failures(ss) == ss.consecutive_failures

increment_failure(ss, reason, now) ==
  [ss EXCEPT !.consecutive_failures = @ + 1,
             !.last_failure_reason = reason,
             !.last_failure_time = now]

\* only the counter is cleared; the reason and the time of the last failure stay
reset_failures_counter_only(ss) ==
  [ss EXCEPT !.consecutive_failures = 0]

reset_failures(ss) ==
  [ss EXCEPT !.consecutive_failures = 0,
             !.last_failure_reason = NoneStr,
             !.last_failure_time = NoTime]

MapPut(f, k, v) == [x \in (DOMAIN f) \cup {k} |-> IF x = k THEN v ELSE f[x]]
MapRemove(f, ks) == [x \in (DOMAIN f) \ ks |-> f[x]]

\* history.pop() in place of history.remove(0): the newest entry is dropped
RECURSIVE DropNewest(_, _)
DropNewest(history, max_entries) ==
  IF Len(history) > max_entries
  THEN DropNewest(SubSeq(history, 1, Len(history) - 1), max_entries) ELSE history

RECURSIVE DropOldest(_, _)
DropOldest(history, max_entries) ==
  IF Len(history) > max_entries THEN DropOldest(Tail(history), max_entries) ELSE history

add_history(st, id, entry, max_entries) ==
  IF id \in DOMAIN st.subjects
  THEN [st EXCEPT !.subjects[id].history = DropOldest(Append(@, entry), max_entries)]
  ELSE st

\* insert(0, ..) in place of push: the entry goes to the front of the queue
add_pending_notification_front(st, notification) ==
  [st EXCEPT !.pending_notifications = <<notification>> \o @]

add_pending_notification(st, notification) ==
  [st EXCEPT !.pending_notifications = Append(@, notification)]

\* std::mem::take: the queue is left empty, the old entries are returned
clear_pending_notifications(st) ==
  [state |-> [st EXCEPT !.pending_notifications = <<>>],
   taken |-> st.pending_notifications]

\* the filter without its negation: the configured subjects' entries go
prune_orphans_inverted(st, valid_ids) ==
  [state |-> [st EXCEPT !.subjects = MapRemove(@, (DOMAIN @) \cap valid_ids)],
   orphans |-> (DOMAIN st.subjects) \cap valid_ids]

prune_orphans(st, valid_ids) ==
  [state |-> [st EXCEPT !.subjects = MapRemove(@, (DOMAIN @) \ valid_ids)],
   orphans |-> (DOMAIN st.subjects) \ valid_ids]

\* ------------------------------------------------- the document on disk
\* serde_json::to_string_pretty: the text of the document, field by field
Serialize(st) == <<st.version, st.last_run, st.subjects, st.pending_notifications>>
DocFields == 4

\* serde_json::from_str: only a complete text parses
ParseOk(content) == Len(content) = DocFields
\* the queue left out of the parsed document (#[serde(skip)])
Deserialize_skips_queue(content) ==
  [version |-> content[1], last_run |-> content[2],
   subjects |-> content[3], pending_notifications |-> <<>>]

Deserialize(content) ==
  [version |-> content[1], last_run |-> content[2],
   subjects |-> content[3], pending_notifications |-> content[4]]

NoFile == [exists |-> FALSE, content |-> <<>>]
FileOf(st) == [exists |-> TRUE, content |-> Serialize(st)]

\* ------------------------------------------------------- configuration
find_subject(cfg, key) ==
  LET hits == SelectSeq(cfg.subjects, LAMBDA s : s.id = key)
  IN  IF hits = <<>> THEN <<>> ELSE <<Head(hits)>>

Take(seq, n) == SubSeq(seq, 1, IF n < Len(seq) THEN n ELSE Len(seq))

\* the unfiltered target set without the enabled test
targets_all_subjects(cfg, subject_key) ==
  IF subject_key # 0 THEN find_subject(cfg, subject_key)
  ELSE cfg.subjects

\* run_check: the target set, or <<>> when the key names no subject
targets(cfg, subject_key) ==
  IF subject_key # 0 THEN find_subject(cfg, subject_key)
  ELSE SelectSeq(cfg.subjects, LAMBDA s : s.enabled)

\* `>` in place of `>=` in the failure filter
below_failure_limit_gt(cfg, st, s) ==
  ~ (s.id \in DOMAIN st.subjects
     /\ consecutive_failures(st.subjects[s.id]) > cfg.max_consecutive_failures)

below_failure_limit(cfg, st, s) ==
  ~ (s.id \in DOMAIN st.subjects
     /\ consecutive_failures(st.subjects[s.id]) >= cfg.max_consecutive_failures)

\* .take(max_searches) placed before .filter(..)
select_subjects_take_first(cfg, st, candidates) ==
  SelectSeq(Take(candidates, cfg.max_searches_per_run),
            LAMBDA s : below_failure_limit(cfg, st, s))

\* the failure filter left out: .take(max_searches) alone
select_subjects_unfiltered(cfg, st, candidates) ==
  Take(candidates, cfg.max_searches_per_run)

\* run_check: .filter(below the failure limit).take(max_searches)
select_subjects(cfg, st, candidates) ==
  Take(SelectSeq(candidates, LAMBDA s : below_failure_limit(cfg, st, s)),
       cfg.max_searches_per_run)

\* --------------------------------------------------------- reconciliation
get_or_create(st, id, variant) ==
  LET inserted == IF id \in DOMAIN st.subjects THEN st
                  ELSE [st EXCEPT !.subjects = MapPut(@, id, DefaultSubjectState(variant))]
  IN  [state |-> inserted, panic |-> inserted.subjects[id].variant # variant]

HistoryEntry(response, now) ==
  [timestamp |-> now, event |-> "check",
   data |-> response.data, should_notify |-> response.should_notify]

\* last_notified set on every success, whatever should_notify says
process_response_always_notified(cfg, subject, response, st, dry_run, now) ==
  LET g == get_or_create(st, subject.id, subject.subject_type)
      updated == reset_failures(
                   [g.state.subjects[subject.id] EXCEPT
                      !.last_checked = now,
                      !.data = response.data,
                      !.last_notified = now])
      written == [g.state EXCEPT !.subjects[subject.id] = updated]
  IN  IF g.panic THEN [state |-> st, panic |-> TRUE, should_notify |-> FALSE]
      ELSE IF ~ dry_run
      THEN [state |-> add_history(written, subject.id, HistoryEntry(response, now),
                                  cfg.max_history_entries),
            panic |-> FALSE, should_notify |-> response.should_notify]
      ELSE [state |-> g.state, panic |-> FALSE, should_notify |-> response.should_notify]

\* process_release_response, process_question_response and
\* process_recurring_response: the variant's fields are carried in data
process_response(cfg, subject, response, st, dry_run, now) ==
  LET g == get_or_create(st, subject.id, subject.subject_type)
      updated == reset_failures(
                   [g.state.subjects[subject.id] EXCEPT
                      !.last_checked = now,
                      !.data = response.data])
      notified == IF response.should_notify
                  THEN [updated EXCEPT !.last_notified = now] ELSE updated
      written == [g.state EXCEPT !.subjects[subject.id] = notified]
  IN  IF g.panic THEN [state |-> st, panic |-> TRUE, should_notify |-> FALSE]
      ELSE IF ~ dry_run
      THEN [state |-> add_history(written, subject.id, HistoryEntry(response, now),
                                  cfg.max_history_entries),
            panic |-> FALSE, should_notify |-> response.should_notify]
      ELSE [state |-> g.state, panic |-> FALSE, should_notify |-> response.should_notify]

event_type(subject) ==
  IF subject.subject_type = "release" THEN "release_update"
  ELSE IF subject.subject_type = "question" THEN "question_update"
  ELSE "recurring_update"

PendingNotification(subject, response, now) ==
  [subject_id |-> subject.id, event_type |-> event_type(subject),
   created_at |-> now, payload |-> response.data]

\* ---------------------------------------------------- event classification
Confidences == {"official", "reliable", "rumor", "speculation", "unknown"}
DatePrecisions == {"exact", "month", "season", "year", "unknown"}

\* Confidence::rank: a lower rank is a higher confidence
Confidence_rank(c) ==
  CASE c = "official" -> 1
    [] c = "reliable" -> 2
    [] c = "rumor" -> 3
    [] c = "speculation" -> 4
    [] OTHER -> 5

is_higher_than(c, other) == Confidence_rank(c) < Confidence_rank(other)

\* DatePrecision::rank: a lower rank is a finer precision
DatePrecision_rank(d) ==
  CASE d = "exact" -> 1
    [] d = "month" -> 2
    [] d = "season" -> 3
    [] d = "year" -> 4
    [] OTHER -> 5

is_more_precise_than(d, other) == DatePrecision_rank(d) < DatePrecision_rank(other)

\* Option<&ReleaseState> and its like: <<>> is None, <<x>> is Some(x)
\* the release branches with the confidence test placed before the value tests
determine_release_event_type_confidence_first(response, previous) ==
  IF previous = <<>>
  THEN IF response.value # NoneStr THEN "Release Date Announced" ELSE "Status Update"
  ELSE LET st == previous[1] IN
       IF is_higher_than(response.confidence, st.confidence) THEN "Confidence Upgraded"
       ELSE IF st.value = NoneStr /\ response.value # NoneStr THEN "Release Date Announced"
       ELSE IF st.value # response.value THEN "Release Date Changed"
       ELSE IF is_more_precise_than(response.precision, st.precision)
       THEN "Release Date Refined"
       ELSE "Status Update"

determine_release_event_type(response, previous) ==
  IF previous = <<>>
  THEN IF response.value # NoneStr THEN "Release Date Announced" ELSE "Status Update"
  ELSE LET st == previous[1] IN
       IF st.value = NoneStr /\ response.value # NoneStr THEN "Release Date Announced"
       ELSE IF st.value # response.value THEN "Release Date Changed"
       ELSE IF is_more_precise_than(response.precision, st.precision)
       THEN "Release Date Refined"
       ELSE IF is_higher_than(response.confidence, st.confidence)
       THEN "Confidence Upgraded"
       ELSE "Status Update"

determine_question_event_type(response, previous) ==
  IF previous = <<>>
  THEN IF response.value # NoneStr THEN "Answer Found" ELSE "Status Update"
  ELSE LET st == previous[1] IN
       IF st.value = NoneStr /\ response.value # NoneStr THEN "Answer Found"
       ELSE IF st.value # response.value THEN "Answer Changed"
       ELSE IF is_higher_than(response.confidence, st.confidence)
       THEN "Confidence Upgraded"
       ELSE IF response.definitive /\ ~ st.definitive THEN "Answer Confirmed"
       ELSE "Status Update"

determine_recurring_event_type(response, previous) ==
  IF previous = <<>>
  THEN IF response.value # NoneStr THEN "Next Event Announced" ELSE "Status Update"
  ELSE LET st == previous[1] IN
       IF st.value = NoneStr /\ response.value # NoneStr THEN "Next Event Announced"
       ELSE IF st.value # response.value THEN "Event Date Changed"
       ELSE "Status Update"

\* send_notification up to the call of send_email: the previous state narrowed
\* to the response's variant, then the event label build_*_email puts in the
\* message
send_notification(subject, response, previous_state) ==
  LET prev == IF previous_state # <<>>
                 /\ previous_state[1].variant = subject.subject_type
              THEN <<previous_state[1].data>> ELSE <<>>
  IN  IF subject.subject_type = "release"
      THEN determine_release_event_type(response.data, prev)
      ELSE IF subject.subject_type = "question"
      THEN determine_question_event_type(response.data, prev)
      ELSE determine_recurring_event_type(response.data, prev)

\* state.subjects.get(&subject.id).cloned()
subject_state(st, id) ==
  IF id \in DOMAIN st.subjects THEN <<st.subjects[id]>> ELSE <<>>

\* the routing goes ahead whatever the finding's should_notify flag is
process_successful_check_any_flag(cfg, subject, response, st, dry_run, no_notify, send_ok, now) ==
  LET r == process_response(cfg, subject, response, st, dry_run, now)
      immediate == ~ no_notify /\ ~ dry_run
      queued == no_notify /\ ~ dry_run
  IN  [state |-> IF ~ r.panic /\ queued
                 THEN add_pending_notification(r.state,
                        PendingNotification(subject, response, now))
                 ELSE r.state,
       panic |-> r.panic,
       label |-> send_notification(subject, response, subject_state(st, subject.id)),
       send_attempted |-> ~ r.panic /\ immediate,
       result |-> [subject_id |-> subject.id, success |-> TRUE,
                   notified |-> ~ r.panic /\ immediate /\ send_ok]]

\* a failed immediate send falls back to the pending queue
process_successful_check_requeues(cfg, subject, response, st, dry_run, no_notify, send_ok, now) ==
  LET r == process_response(cfg, subject, response, st, dry_run, now)
      immediate == r.should_notify /\ ~ no_notify /\ ~ dry_run
      queued == r.should_notify /\ ~ dry_run /\ (no_notify \/ ~ send_ok)
  IN  [state |-> IF ~ r.panic /\ queued
                 THEN add_pending_notification(r.state,
                        PendingNotification(subject, response, now))
                 ELSE r.state,
       panic |-> r.panic,
       label |-> send_notification(subject, response, subject_state(st, subject.id)),
       send_attempted |-> ~ r.panic /\ immediate,
       result |-> [subject_id |-> subject.id, success |-> TRUE,
                   notified |-> ~ r.panic /\ immediate /\ send_ok]]

\* previous_state read after process_*_response instead of before it
process_successful_check_label_after(cfg, subject, response, st, dry_run, no_notify, send_ok, now) ==
  LET r == process_response(cfg, subject, response, st, dry_run, now)
      immediate == r.should_notify /\ ~ no_notify /\ ~ dry_run
      queued == r.should_notify /\ no_notify /\ ~ dry_run
  IN  [state |-> IF ~ r.panic /\ queued
                 THEN add_pending_notification(r.state,
                        PendingNotification(subject, response, now))
                 ELSE r.state,
       panic |-> r.panic,
       label |-> send_notification(subject, response, subject_state(r.state, subject.id)),
       send_attempted |-> ~ r.panic /\ immediate,
       result |-> [subject_id |-> subject.id, success |-> TRUE,
                   notified |-> ~ r.panic /\ immediate /\ send_ok]]

\* process_successful_check; send_ok is the outcome of email::send_email
process_successful_check(cfg, subject, response, st, dry_run, no_notify, send_ok, now) ==
  LET r == process_response(cfg, subject, response, st, dry_run, now)
      immediate == r.should_notify /\ ~ no_notify /\ ~ dry_run
      queued == r.should_notify /\ no_notify /\ ~ dry_run
  IN  [state |-> IF ~ r.panic /\ queued
                 THEN add_pending_notification(r.state,
                        PendingNotification(subject, response, now))
                 ELSE r.state,
       panic |-> r.panic,
       label |-> send_notification(subject, response, subject_state(st, subject.id)),
       send_attempted |-> ~ r.panic /\ immediate,
       result |-> [subject_id |-> subject.id, success |-> TRUE,
                   notified |-> ~ r.panic /\ immediate /\ send_ok]]

failure_reason(error) ==
  IF error \in {"ClaudeTimeout", "PerplexityTimeout"} THEN "timeout"
  ELSE IF error = "ClaudeParseError" THEN "parse_error"
  ELSE "api_error"

process_failed_check(cfg, subject, error, st, dry_run, now) ==
  [state |-> IF ~ dry_run /\ subject.id \in DOMAIN st.subjects
             THEN [st EXCEPT !.subjects[subject.id] =
                     increment_failure(@, failure_reason(error), now)]
             ELSE st,
   result |-> [subject_id |-> subject.id, success |-> FALSE, notified |-> FALSE]]

\* any failure is reported as a total failure
check_exit_status_no_partial(results) ==
  LET failure_count == Cardinality({i \in DOMAIN results : ~ results[i].success})
  IN  IF failure_count = 0 THEN "Success" ELSE "AllSubjectsFailed"

\* run_check: the exit classification
check_exit_status(results) ==
  LET success_count == Cardinality({i \in DOMAIN results : results[i].success})
      failure_count == Cardinality({i \in DOMAIN results : ~ results[i].success})
  IN  IF failure_count = 0 THEN "Success"
      ELSE IF success_count = 0 THEN "AllSubjectsFailed"
      ELSE "PartialFailure"

\* ------------------------------------------------------------- delivery
\* send_digest: one message for the whole queue; ok is send_email's outcome
send_digest(notifications, ok) ==
  [ok |-> ok,
   delivered |-> IF ok THEN <<[kind |-> "digest", items |-> notifications]>> ELSE <<>>]

\* the loop goes on after a failed send (the `?` replaced by `continue`)
send_individual_continues(notifications, k) ==
  [ok |-> k = Len(notifications),
   delivered |-> IF k = Len(notifications)
                 THEN [i \in 1..k |-> [kind |-> "single", items |-> <<notifications[i]>>]]
                 ELSE [i \in 1..(Len(notifications) - 1) |->
                         [kind |-> "single",
                          items |-> <<notifications[IF i <= k THEN i ELSE i + 1]>>]]]

\* send_individual: one message per entry, stopping at the first failed send;
\* k is the number of sends that succeed before one fails (k = n: none fails)
send_individual(notifications, k) ==
  [ok |-> k = Len(notifications),
   delivered |-> [i \in 1..k |-> [kind |-> "single", items |-> <<notifications[i]>>]]]

\* the drained entries put back from the last to the first
RECURSIVE push_back_reversed(_, _)
push_back_reversed(st, notifications) ==
  IF notifications = <<>> THEN st
  ELSE add_pending_notification(push_back_reversed(st, Tail(notifications)),
                                Head(notifications))

\* run_notify, Err arm: every drained entry is pushed back
RECURSIVE push_back(_, _)
push_back(st, notifications) ==
  IF notifications = <<>> THEN st
  ELSE push_back(add_pending_notification(st, Head(notifications)), Tail(notifications))

\* ------------------------------------------------------------------ state
VARIABLES
  config,            \* the configuration file (never written by these commands)
  disk,              \* state.json: [exists, content]
  lockHolder,        \* the process holding the flock on state.lock, or 0
  clock,             \* Utc::now(), one tick per run that holds the lock
  runs,              \* invocations started so far
  pc,                \* per process: position in its command
  cmd,               \* per process: the command line
  elapsed,           \* per process: polls slept in FileLock::acquire
  state,             \* per process: the in-memory State
  loaded,            \* per process: the State as load_state returned it
  started,           \* per process: ids handed to the research backend
  parallel_results,  \* per process: (subject, result) pairs of the batch
  next,              \* per process: index of the next pair to reconcile
  results,           \* per process: Vec<CheckResult>
  notifications,     \* per process: the drained queue of run_notify
  outbox,            \* per process: messages accepted by send_email
  delivery_failed,   \* per process: a send_email call returned Err
  wrote,             \* per process: fs::write on state.json was entered
  exit,              \* per process: the status the command ends with
  classified         \* an event classification: its inputs and the label

vars == <<config, disk, lockHolder, clock, runs,
          pc, cmd, elapsed, state, loaded, started, parallel_results, next,
          results, notifications, outbox, delivery_failed, wrote, exit,
          classified>>

NoCmd == [name |-> "none", subject_key |-> 0, dry_run |-> FALSE,
          no_notify |-> FALSE, digest |-> FALSE]

Keys == {0, 1, UnknownKey}

Commands ==
  [name : {"check"}, subject_key : Keys, dry_run : BOOLEAN,
   no_notify : BOOLEAN, digest : {FALSE}]
  \cup [name : {"notify"}, subject_key : {0}, dry_run : BOOLEAN,
        no_notify : {FALSE}, digest : BOOLEAN]
  \cup [name : {"prune"}, subject_key : {0}, dry_run : {FALSE},
        no_notify : {FALSE}, digest : {FALSE}]
  \cup [name : {"reset"}, subject_key : Keys, dry_run : {FALSE},
        no_notify : {FALSE}, digest : {FALSE}]

Errors == {"ClaudeTimeout", "PerplexityTimeout", "ClaudeParseError", "Claude"}
FindingData ==
  {[value |-> "b", precision |-> "exact", confidence |-> "official",
    definitive |-> TRUE]}

Outcomes ==
  [status : {"ok"}, should_notify : BOOLEAN, data : FindingData, error : {NoneStr}]
  \cup [status : {"err"}, should_notify : {FALSE}, data : {NoData}, error : Errors]

\* the future is created without a copy of the subject's state
Pending_no_snapshot(subject, st) ==
  [subject |-> subject, state_snapshot |-> <<>>,
   status |-> "pending", should_notify |-> FALSE,
   data |-> NoData, error |-> NoneStr]

\* run_check: a future of the batch, with its clone of the subject's entry
Pending(subject, st) ==
  [subject |-> subject, state_snapshot |-> subject_state(st, subject.id),
   status |-> "pending", should_notify |-> FALSE,
   data |-> NoData, error |-> NoneStr]

\* claude::check_subject and perplexity::check_subject: the snapshot narrowed
\* to the subject's type, as it goes into the prompt
check_subject(subject, state_snapshot) ==
  IF state_snapshot # <<>> /\ state_snapshot[1].variant = subject.subject_type
  THEN <<state_snapshot[1].data>> ELSE <<>>

\* A document left by earlier runs: subjects 1 and 2 were checked at time 1
\* by a --no-notify run, then subject 1 failed until it reached the limit.
SeedTime == 1 + MaxConsecutiveFailures

RECURSIVE FailFrom(_, _, _)
FailFrom(st, subject, t) ==
  IF t > SeedTime THEN st
  ELSE FailFrom(process_failed_check(ConfigB, subject, "ClaudeTimeout", st, FALSE, t).state,
                subject, t + 1)

SeedState ==
  LET r == [should_notify |-> TRUE,
            data |-> [value |-> "a", precision |-> "month",
                      confidence |-> "rumor", definitive |-> FALSE]]
      s1 == process_successful_check(ConfigB, ConfigB.subjects[1], r, DefaultState,
                                     FALSE, TRUE, TRUE, 1).state
      s2 == process_successful_check(ConfigB, ConfigB.subjects[2], r, s1,
                                     FALSE, TRUE, TRUE, 1).state
      s3 == FailFrom(s2, ConfigB.subjects[1], 2)
  IN  [s3 EXCEPT !.last_run = SeedTime]

\* The seed document after the configuration file was edited by hand: subject
\* 2 was a release subject when it was checked and is now a question subject,
\* and the subject with id OrphanId has been removed from the configuration.
OrphanId == NumSubjects + 1

SeedEdited ==
  [SeedState EXCEPT
     !.subjects = MapPut([@ EXCEPT ![2].variant = "release"],
                         OrphanId, [SeedState.subjects[2] EXCEPT !.variant = "release"])]

\* no classification is under way
NoClassification ==
  [subject_type |-> NoneStr, previous |-> <<>>, response |-> NoData, label |-> NoneStr]

Init ==
  /\ config \in Configs
  /\ disk \in {NoFile, FileOf(SeedState), FileOf(SeedEdited)}
  /\ config = ConfigB => disk # NoFile
  /\ lockHolder = 0
  /\ clock = SeedTime
  /\ runs = 0
  /\ pc = [p \in Procs |-> "idle"]
  /\ cmd = [p \in Procs |-> NoCmd]
  /\ elapsed = [p \in Procs |-> 0]
  /\ state = [p \in Procs |-> DefaultState]
  /\ loaded = [p \in Procs |-> DefaultState]
  /\ started = [p \in Procs |-> <<>>]
  /\ parallel_results = [p \in Procs |-> <<>>]
  /\ next = [p \in Procs |-> 1]
  /\ results = [p \in Procs |-> <<>>]
  /\ notifications = [p \in Procs |-> <<>>]
  /\ outbox = [p \in Procs |-> <<>>]
  /\ delivery_failed = [p \in Procs |-> FALSE]
  /\ wrote = [p \in Procs |-> FALSE]
  /\ exit = [p \in Procs |-> NoneStr]
  /\ classified = NoClassification

\* process slots are interchangeable: a new invocation takes the lowest idle one
LowestIdle(p) == pc[p] = "idle" /\ \A q \in 1..(p - 1) : pc[q] # "idle"

\* the command returns (or unwinds): only the status and the lock remain
Return(p, status) ==
  /\ pc' = [pc EXCEPT ![p] = "ret"]
  /\ exit' = [exit EXCEPT ![p] = status]

\* ------------------------------------------------------ process lifecycle
\* main: a headsup invocation begins and reaches state::load_state
Start(p) ==
  /\ LowestIdle(p)
  /\ runs < MaxRuns
  /\ runs' = runs + 1
  /\ pc' = [pc EXCEPT ![p] = "acquire"]
  /\ UNCHANGED <<config, classified, disk, lockHolder, clock, cmd, elapsed, state, loaded, started,
                 parallel_results, next, results, notifications, outbox,
                 delivery_failed, wrote, exit>>

\* try_lock_exclusive taken to succeed whoever holds the lock
acquire_ignores_holder(p) ==
  /\ pc[p] = "acquire"
  /\ lockHolder' = p
  /\ pc' = [pc EXCEPT ![p] = "load"]
  /\ UNCHANGED <<config, classified, disk, clock, runs, cmd, elapsed, exit, state, loaded, started,
                 parallel_results, next, results, notifications, outbox,
                 delivery_failed, wrote>>

\* the wait bound runs out and the command goes on without the lock
acquire_proceeds_unlocked(p) ==
  /\ pc[p] = "acquire"
  /\ IF lockHolder = 0
     THEN /\ lockHolder' = p
          /\ pc' = [pc EXCEPT ![p] = "load"]
          /\ UNCHANGED elapsed
     ELSE IF elapsed[p] < LockWaitTicks
     THEN /\ elapsed' = [elapsed EXCEPT ![p] = @ + 1]
          /\ UNCHANGED <<lockHolder, pc>>
     ELSE /\ pc' = [pc EXCEPT ![p] = "load"]
          /\ UNCHANGED <<lockHolder, elapsed>>
  /\ UNCHANGED <<config, classified, disk, clock, runs, cmd, exit, state, loaded, started,
                 parallel_results, next, results, notifications, outbox,
                 delivery_failed, wrote>>

\* FileLock::acquire: one pass of the try_lock_exclusive loop
acquire(p) ==
  /\ pc[p] = "acquire"
  /\ IF lockHolder = 0
     THEN /\ lockHolder' = p
          /\ pc' = [pc EXCEPT ![p] = "load"]
          /\ UNCHANGED <<elapsed, exit>>
     ELSE IF elapsed[p] < LockWaitTicks
     THEN /\ elapsed' = [elapsed EXCEPT ![p] = @ + 1]
          /\ UNCHANGED <<lockHolder, pc, exit>>
     ELSE /\ Return(p, "StateLocked")
          /\ UNCHANGED <<lockHolder, elapsed>>
  /\ UNCHANGED <<config, classified, disk, clock, runs, cmd, state, loaded, started,
                 parallel_results, next, results, notifications, outbox,
                 delivery_failed, wrote>>

\* the FileLock returned by load_state is dropped at once (bound to `_`)
load_state_drops_lock(p, c) ==
  /\ pc[p] = "load"
  /\ cmd' = [cmd EXCEPT ![p] = c]
  /\ clock' = clock + 1
  /\ lockHolder' = IF lockHolder = p THEN 0 ELSE lockHolder
  /\ IF ~ disk.exists
     THEN /\ state' = [state EXCEPT ![p] = DefaultState]
          /\ loaded' = [loaded EXCEPT ![p] = DefaultState]
          /\ pc' = [pc EXCEPT ![p] = "body"]
          /\ UNCHANGED exit
     ELSE IF ParseOk(disk.content)
     THEN /\ state' = [state EXCEPT ![p] = Deserialize(disk.content)]
          /\ loaded' = [loaded EXCEPT ![p] = Deserialize(disk.content)]
          /\ pc' = [pc EXCEPT ![p] = "body"]
          /\ UNCHANGED exit
     ELSE /\ Return(p, "Json")
          /\ UNCHANGED <<state, loaded>>
  /\ UNCHANGED <<config, classified, disk, runs, elapsed,
                 started, parallel_results, next, results, notifications, outbox,
                 delivery_failed, wrote>>

\* unwrap_or_default on the parse: a document that does not parse is
\* replaced by the default State
load_state_discards_malformed(p, c) ==
  /\ pc[p] = "load"
  /\ cmd' = [cmd EXCEPT ![p] = c]
  /\ clock' = clock + 1
  /\ LET st == IF disk.exists /\ ParseOk(disk.content)
               THEN Deserialize(disk.content) ELSE DefaultState
     IN  /\ state' = [state EXCEPT ![p] = st]
         /\ loaded' = [loaded EXCEPT ![p] = st]
  /\ pc' = [pc EXCEPT ![p] = "body"]
  /\ UNCHANGED <<config, classified, disk, lockHolder, runs, elapsed, exit,
                 started, parallel_results, next, results, notifications, outbox,
                 delivery_failed, wrote>>

\* load_state, after the lock: read and parse the document, or the default;
\* c is the command line of this invocation, first used after the load
load_state(p, c) ==
  /\ pc[p] = "load"
  /\ cmd' = [cmd EXCEPT ![p] = c]
  /\ clock' = clock + 1
  /\ IF ~ disk.exists
     THEN /\ state' = [state EXCEPT ![p] = DefaultState]
          /\ loaded' = [loaded EXCEPT ![p] = DefaultState]
          /\ pc' = [pc EXCEPT ![p] = "body"]
          /\ UNCHANGED exit
     ELSE IF ParseOk(disk.content)
     THEN /\ state' = [state EXCEPT ![p] = Deserialize(disk.content)]
          /\ loaded' = [loaded EXCEPT ![p] = Deserialize(disk.content)]
          /\ pc' = [pc EXCEPT ![p] = "body"]
          /\ UNCHANGED exit
     ELSE /\ Return(p, "Json")
          /\ UNCHANGED <<state, loaded>>
  /\ UNCHANGED <<config, classified, disk, lockHolder, runs, elapsed,
                 started, parallel_results, next, results, notifications, outbox,
                 delivery_failed, wrote>>

\* load_state_readonly: state show, history, subjects list
load_state_readonly(p) ==
  /\ LowestIdle(p)
  /\ runs < MaxRuns
  /\ runs' = runs + 1
  /\ cmd' = [cmd EXCEPT ![p] = [NoCmd EXCEPT !.name = "show"]]
  /\ IF ~ disk.exists
     THEN /\ state' = [state EXCEPT ![p] = DefaultState]
          /\ Return(p, "Success")
     ELSE IF ParseOk(disk.content)
     THEN /\ state' = [state EXCEPT ![p] = Deserialize(disk.content)]
          /\ Return(p, "Success")
     ELSE /\ Return(p, "Json")
          /\ UNCHANGED state
  /\ UNCHANGED <<config, classified, disk, lockHolder, clock, elapsed, loaded, started,
                 parallel_results, next, results, notifications, outbox,
                 delivery_failed, wrote>>

Reset(p) ==
  /\ pc' = [pc EXCEPT ![p] = "idle"]
  /\ cmd' = [cmd EXCEPT ![p] = NoCmd]
  /\ elapsed' = [elapsed EXCEPT ![p] = 0]
  /\ state' = [state EXCEPT ![p] = DefaultState]
  /\ loaded' = [loaded EXCEPT ![p] = DefaultState]
  /\ started' = [started EXCEPT ![p] = <<>>]
  /\ parallel_results' = [parallel_results EXCEPT ![p] = <<>>]
  /\ next' = [next EXCEPT ![p] = 1]
  /\ results' = [results EXCEPT ![p] = <<>>]
  /\ notifications' = [notifications EXCEPT ![p] = <<>>]
  /\ outbox' = [outbox EXCEPT ![p] = <<>>]
  /\ delivery_failed' = [delivery_failed EXCEPT ![p] = FALSE]
  /\ wrote' = [wrote EXCEPT ![p] = FALSE]
  /\ exit' = [exit EXCEPT ![p] = NoneStr]

\* the handle is leaked (mem::forget) and the flock outlives the command
Exit_keeps_lock(p) ==
  /\ pc[p] = "ret"
  /\ UNCHANGED lockHolder
  /\ Reset(p)
  /\ UNCHANGED <<config, classified, disk, clock, runs>>

\* FileLock::drop at the end of the command, then the process exits
Exit(p) ==
  /\ pc[p] = "ret"
  /\ lockHolder' = IF lockHolder = p THEN 0 ELSE lockHolder
  /\ Reset(p)
  /\ UNCHANGED <<config, classified, disk, clock, runs>>

\* the process is killed (or the machine stops); the OS drops its flock
Crash(p) ==
  /\ pc[p] \notin {"idle", "ret"}
  /\ lockHolder' = IF lockHolder = p THEN 0 ELSE lockHolder
  /\ Reset(p)
  /\ UNCHANGED <<config, classified, disk, clock, runs>>

\* -------------------------------------------------------------- run_check
\* run_check up to the creation of the futures: resolve, filter, truncate
run_check_select(p) ==
  LET candidates == targets(config, cmd[p].subject_key)
      selected == select_subjects(config, state[p], candidates)
  IN
  /\ pc[p] = "body"
  /\ cmd[p].name = "check"
  /\ IF cmd[p].subject_key # 0 /\ candidates = <<>>
     THEN /\ Return(p, "SubjectNotFound")
          /\ UNCHANGED <<started, parallel_results>>
     ELSE IF selected = <<>>
     THEN /\ Return(p, "Success")
          /\ UNCHANGED <<started, parallel_results>>
     ELSE /\ started' = [started EXCEPT ![p] = [i \in DOMAIN selected |-> selected[i].id]]
          /\ parallel_results' = [parallel_results EXCEPT ![p] =
                                    [i \in DOMAIN selected |-> Pending(selected[i], state[p])]]
          /\ pc' = [pc EXCEPT ![p] = "investigate"]
          /\ UNCHANGED exit
  /\ UNCHANGED <<config, classified, disk, lockHolder, clock, runs, cmd, elapsed,
                 state, loaded, next, results, notifications, outbox,
                 delivery_failed, wrote>>

AllDone(batch) == \A i \in DOMAIN batch : batch[i].status # "pending"

\* the loop over the results starts when the first future completes
check_subject_parallel_eager(p, i, outcome) ==
  LET batch == [parallel_results[p] EXCEPT ![i] =
                  [subject |-> @.subject, state_snapshot |-> @.state_snapshot,
                   prior |-> check_subject(@.subject, @.state_snapshot),
                   status |-> outcome.status,
                   should_notify |-> outcome.should_notify,
                   data |-> outcome.data, error |-> outcome.error]]
  IN
  /\ pc[p] = "investigate"
  /\ i \in DOMAIN parallel_results[p]
  /\ parallel_results[p][i].status = "pending"
  /\ parallel_results' = [parallel_results EXCEPT ![p] = batch]
  /\ pc' = [pc EXCEPT ![p] = "reconcile"]
  /\ UNCHANGED <<config, classified, disk, lockHolder, clock, runs, cmd, elapsed,
                 state, loaded, started, next, results, notifications, outbox,
                 delivery_failed, wrote, exit>>

\* check_subject_parallel: the backend call of one future completes
check_subject_parallel(p, i, outcome) ==
  LET batch == [parallel_results[p] EXCEPT ![i] =
                  [subject |-> @.subject, state_snapshot |-> @.state_snapshot,
                   prior |-> check_subject(@.subject, @.state_snapshot),
                   status |-> outcome.status,
                   should_notify |-> outcome.should_notify,
                   data |-> outcome.data, error |-> outcome.error]]
  IN
  /\ pc[p] = "investigate"
  /\ i \in DOMAIN parallel_results[p]
  /\ parallel_results[p][i].status = "pending"
  /\ parallel_results' = [parallel_results EXCEPT ![p] = batch]
  /\ pc' = [pc EXCEPT ![p] = IF AllDone(batch) THEN "reconcile" ELSE "investigate"]
  /\ UNCHANGED <<config, classified, disk, lockHolder, clock, runs, cmd, elapsed,
                 state, loaded, started, next, results, notifications, outbox,
                 delivery_failed, wrote, exit>>

\* the results of the futures that had completed are kept at the timeout
total_timeout_keeps_finished(p) ==
  /\ pc[p] = "investigate"
  /\ config.total_run_timeout_seconds > 0
  /\ parallel_results' = [parallel_results EXCEPT ![p] =
                            SelectSeq(@, LAMBDA pair : pair.status # "pending")]
  /\ pc' = [pc EXCEPT ![p] = "reconcile"]
  /\ UNCHANGED <<config, classified, disk, lockHolder, clock, runs, cmd, elapsed,
                 state, loaded, started, next, results, notifications, outbox,
                 delivery_failed, wrote, exit>>

\* run_check: tokio::time::timeout fires before join_all completes
total_timeout(p) ==
  /\ pc[p] = "investigate"
  /\ config.total_run_timeout_seconds > 0
  /\ parallel_results' = [parallel_results EXCEPT ![p] = <<>>]
  /\ pc' = [pc EXCEPT ![p] = "reconcile"]
  /\ UNCHANGED <<config, classified, disk, lockHolder, clock, runs, cmd, elapsed,
                 state, loaded, started, next, results, notifications, outbox,
                 delivery_failed, wrote, exit>>

\* `?` on the backend result: the first Err ends the run before the save
reconcile_propagates_error(p, send_ok) ==
  LET pair == parallel_results[p][next[p]]
      response == [should_notify |-> pair.should_notify, data |-> pair.data]
      ok == process_successful_check(config, pair.subject, response, state[p],
                                     cmd[p].dry_run, cmd[p].no_notify, send_ok, clock)
  IN
  /\ pc[p] = "reconcile"
  /\ next[p] <= Len(parallel_results[p])
  /\ IF pair.status = "ok" /\ ~ ok.panic
     THEN /\ state' = [state EXCEPT ![p] = ok.state]
          /\ results' = [results EXCEPT ![p] = Append(@, ok.result)]
          /\ next' = [next EXCEPT ![p] = @ + 1]
          /\ outbox' = [outbox EXCEPT ![p] =
                         IF ok.send_attempted /\ send_ok
                         THEN Append(@, [kind |-> "immediate", label |-> ok.label,
                                         items |-> <<PendingNotification(pair.subject, response, clock)>>])
                         ELSE @]
          /\ delivery_failed' = [delivery_failed EXCEPT ![p] =
                                   @ \/ (ok.send_attempted /\ ~ send_ok)]
          /\ UNCHANGED <<pc, exit>>
     ELSE /\ Return(p, IF pair.status = "ok" THEN "panic" ELSE "GeneralError")
          /\ UNCHANGED <<state, results, next, outbox, delivery_failed>>
  /\ UNCHANGED <<config, classified, disk, lockHolder, clock, runs, cmd, elapsed,
                 loaded, started, parallel_results, notifications, wrote>>

\* run_check: one pass of the sequential loop over parallel_results
reconcile(p, send_ok) ==
  LET pair == parallel_results[p][next[p]]
      response == [should_notify |-> pair.should_notify, data |-> pair.data]
      ok == process_successful_check(config, pair.subject, response, state[p],
                                     cmd[p].dry_run, cmd[p].no_notify, send_ok, clock)
      failed == process_failed_check(config, pair.subject, pair.error, state[p],
                                     cmd[p].dry_run, clock)
  IN
  /\ pc[p] = "reconcile"
  /\ next[p] <= Len(parallel_results[p])
  /\ IF pair.status = "ok"
     THEN IF ok.panic
          THEN /\ Return(p, "panic")
               /\ UNCHANGED <<state, results, next, outbox, delivery_failed>>
          ELSE /\ state' = [state EXCEPT ![p] = ok.state]
               /\ results' = [results EXCEPT ![p] = Append(@, ok.result)]
               /\ next' = [next EXCEPT ![p] = @ + 1]
               /\ outbox' = [outbox EXCEPT ![p] =
                              IF ok.send_attempted /\ send_ok
                              THEN Append(@, [kind |-> "immediate", label |-> ok.label,
                                              items |-> <<PendingNotification(pair.subject, response, clock)>>])
                              ELSE @]
               /\ delivery_failed' = [delivery_failed EXCEPT ![p] =
                                        @ \/ (ok.send_attempted /\ ~ send_ok)]
               /\ UNCHANGED <<pc, exit>>
     ELSE /\ state' = [state EXCEPT ![p] = failed.state]
          /\ results' = [results EXCEPT ![p] = Append(@, failed.result)]
          /\ next' = [next EXCEPT ![p] = @ + 1]
          /\ UNCHANGED <<pc, exit, outbox, delivery_failed>>
  /\ UNCHANGED <<config, classified, disk, lockHolder, clock, runs, cmd, elapsed,
                 loaded, started, parallel_results, notifications, wrote>>

\* save_state called without the !dry_run test
finish_check_always_saves(p) ==
  /\ pc[p] = "reconcile"
  /\ next[p] > Len(parallel_results[p])
  /\ state' = [state EXCEPT ![p].last_run = clock]
  /\ pc' = [pc EXCEPT ![p] = "save"]
  /\ UNCHANGED <<config, classified, disk, lockHolder, clock, runs, cmd, elapsed, exit,
                 loaded, started, parallel_results, next, results, notifications,
                 outbox, delivery_failed, wrote>>

\* run_check after the loop: last_run, then save unless --dry-run
finish_check(p) ==
  /\ pc[p] = "reconcile"
  /\ next[p] > Len(parallel_results[p])
  /\ state' = [state EXCEPT ![p].last_run = clock]
  /\ IF cmd[p].dry_run
     THEN Return(p, check_exit_status(results[p]))
     ELSE /\ pc' = [pc EXCEPT ![p] = "save"]
          /\ UNCHANGED exit
  /\ UNCHANGED <<config, classified, disk, lockHolder, clock, runs, cmd, elapsed,
                 loaded, started, parallel_results, next, results, notifications,
                 outbox, delivery_failed, wrote>>

\* ------------------------------------------------------------- save_state
\* fs::write, first half: File::create truncates state.json
save_state_create(p) ==
  /\ pc[p] = "save"
  /\ disk' = [exists |-> TRUE, content |-> <<>>]
  /\ wrote' = [wrote EXCEPT ![p] = TRUE]
  /\ pc' = [pc EXCEPT ![p] = "write"]
  /\ UNCHANGED <<config, classified, lockHolder, clock, runs, cmd, elapsed, state,
                 loaded, started, parallel_results, next, results, notifications,
                 outbox, delivery_failed, exit>>

\* the status a command returns once its save has succeeded
status_after_save(p) ==
  IF cmd[p].name = "check" THEN check_exit_status(results[p])
  ELSE IF cmd[p].name = "notify" /\ delivery_failed[p] THEN "EmailDeliveryFailed"
  ELSE "Success"

\* fs::write, second half: write_all puts out the text, one write(2) call
\* of at most WriteChunk fields at a time
save_state_write(p) ==
  LET text == Serialize(state[p])
      upto == IF Len(disk.content) + WriteChunk < Len(text)
              THEN Len(disk.content) + WriteChunk ELSE Len(text)
      content == SubSeq(text, 1, upto)
  IN
  /\ pc[p] = "write"
  /\ disk' = [exists |-> TRUE, content |-> content]
  /\ IF Len(content) = Len(text)
     THEN Return(p, status_after_save(p))
     ELSE UNCHANGED <<pc, exit>>
  /\ UNCHANGED <<config, classified, lockHolder, clock, runs, cmd, elapsed, state,
                 loaded, started, parallel_results, next, results, notifications,
                 outbox, delivery_failed, wrote>>

\* fs::write returns Err part-way (disk full, I/O error) and `?` ends the
\* command
save_state_error(p) ==
  /\ pc[p] = "write"
  /\ Return(p, "Io")
  /\ UNCHANGED <<config, classified, disk, lockHolder, clock, runs, cmd, elapsed,
                 state, loaded, started, parallel_results, next, results,
                 notifications, outbox, delivery_failed, wrote>>

\* ------------------------------------------------------------- run_notify
\* run_notify from the empty-queue test to the match on the send result;
\* k is the number of send_email calls that succeed before one fails
run_notify(p, k) ==
  LET taken == clear_pending_notifications(state[p])
      use_digest == cmd[p].digest \/ config.digest_mode
      sent == IF use_digest THEN send_digest(taken.taken, k > 0)
              ELSE send_individual(taken.taken, k)
  IN
  /\ pc[p] = "body"
  /\ cmd[p].name = "notify"
  /\ k \in 0..Len(state[p].pending_notifications)
  /\ IF state[p].pending_notifications = <<>>
     THEN /\ Return(p, "Success")
          /\ UNCHANGED <<state, notifications, outbox, delivery_failed>>
     ELSE IF cmd[p].dry_run
     THEN /\ state' = [state EXCEPT ![p] = taken.state]
          /\ notifications' = [notifications EXCEPT ![p] = taken.taken]
          /\ Return(p, "Success")
          /\ UNCHANGED <<outbox, delivery_failed>>
     ELSE /\ notifications' = [notifications EXCEPT ![p] = taken.taken]
          /\ outbox' = [outbox EXCEPT ![p] = sent.delivered]
          /\ delivery_failed' = [delivery_failed EXCEPT ![p] = ~ sent.ok]
          /\ state' = [state EXCEPT ![p] =
                         IF sent.ok THEN taken.state
                         ELSE push_back(taken.state, taken.taken)]
          /\ pc' = [pc EXCEPT ![p] = "save"]
          /\ UNCHANGED exit
  /\ UNCHANGED <<config, classified, disk, lockHolder, clock, runs, cmd, elapsed,
                 loaded, started, parallel_results, next, results, wrote>>

\* ------------------------------------------------------- state prune/reset
prune_state(p) ==
  LET valid_ids == {config.subjects[i].id : i \in DOMAIN config.subjects}
      pruned == prune_orphans(state[p], valid_ids)
  IN
  /\ pc[p] = "body"
  /\ cmd[p].name = "prune"
  /\ state' = [state EXCEPT ![p] = pruned.state]
  /\ IF pruned.orphans = {}
     THEN Return(p, "Success")
     ELSE /\ pc' = [pc EXCEPT ![p] = "save"]
          /\ UNCHANGED exit
  /\ UNCHANGED <<config, classified, disk, lockHolder, clock, runs, cmd, elapsed,
                 loaded, started, parallel_results, next, results, notifications,
                 outbox, delivery_failed, wrote>>

\* reset_state; confirm is the answer to the interactive prompt
reset_state(p, confirm) ==
  LET subject == find_subject(config, cmd[p].subject_key)
  IN
  /\ pc[p] = "body"
  /\ cmd[p].name = "reset"
  /\ IF cmd[p].subject_key # 0
     THEN IF subject = <<>>
          THEN /\ Return(p, "SubjectNotFound")
               /\ UNCHANGED state
          ELSE IF subject[1].id \in DOMAIN state[p].subjects
          THEN /\ state' = [state EXCEPT ![p].subjects = MapRemove(@, {subject[1].id})]
               /\ pc' = [pc EXCEPT ![p] = "save"]
               /\ UNCHANGED exit
          ELSE /\ Return(p, "Success")
               /\ UNCHANGED state
     ELSE IF ~ confirm
          THEN /\ Return(p, "Success")
               /\ UNCHANGED state
          ELSE /\ state' = [state EXCEPT ![p].subjects = [x \in {} |-> 0],
                                         ![p].pending_notifications = <<>>]
               /\ pc' = [pc EXCEPT ![p] = "save"]
               /\ UNCHANGED exit
  /\ UNCHANGED <<config, classified, disk, lockHolder, clock, runs, cmd, elapsed,
                 loaded, started, parallel_results, next, results, notifications,
                 outbox, delivery_failed, wrote>>

\* ---------------------------------------------------------- specification
Next ==
  \/ \E p \in Procs : Start(p)
  \/ \E p \in Procs : acquire(p)
  \/ \E p \in Procs, c \in Commands : load_state(p, c)
  \/ \E p \in Procs : load_state_readonly(p)
  \/ \E p \in Procs : run_check_select(p)
  \/ \E p \in Procs, i \in 1..NumSubjects, o \in Outcomes : check_subject_parallel(p, i, o)
  \/ \E p \in Procs : total_timeout(p)
  \/ \E p \in Procs, send_ok \in BOOLEAN : reconcile(p, send_ok)
  \/ \E p \in Procs : finish_check(p)
  \/ \E p \in Procs : save_state_create(p)
  \/ \E p \in Procs : save_state_write(p)
  \/ \E p \in Procs : save_state_error(p)
  \/ \E p \in Procs, k \in 0..NumSubjects : run_notify(p, k)
  \/ \E p \in Procs : prune_state(p)
  \/ \E p \in Procs, confirm \in BOOLEAN : reset_state(p, confirm)
  \/ \E p \in Procs : Exit(p)
  \/ \E p \in Procs : Crash(p)

Spec == Init /\ [][Next]_vars

\* ------------------------------------------- specification: classification
\* The event label of a notification as a function of the finding and of the
\* previous state of the subject; no command is running.
FoundValues == {NoneStr, "a", "b"}

ClassifyData(subject_type) ==
  [value : FoundValues,
   precision : IF subject_type = "question" THEN {"unknown"} ELSE DatePrecisions,
   confidence : Confidences,
   definitive : IF subject_type = "question" THEN BOOLEAN ELSE {FALSE}]

ClassifyInputs ==
  UNION {[subject_type : {t},
          previous : {<<>>} \cup {<<d>> : d \in ClassifyData(t)},
          response : ClassifyData(t),
          label : {NoneStr}] : t \in {"release", "question", "recurring"}}

InitClassify ==
  /\ config = ConfigA
  /\ disk = NoFile
  /\ lockHolder = 0
  /\ clock = SeedTime
  /\ runs = 0
  /\ pc = [p \in Procs |-> "idle"]
  /\ cmd = [p \in Procs |-> NoCmd]
  /\ elapsed = [p \in Procs |-> 0]
  /\ state = [p \in Procs |-> DefaultState]
  /\ loaded = [p \in Procs |-> DefaultState]
  /\ started = [p \in Procs |-> <<>>]
  /\ parallel_results = [p \in Procs |-> <<>>]
  /\ next = [p \in Procs |-> 1]
  /\ results = [p \in Procs |-> <<>>]
  /\ notifications = [p \in Procs |-> <<>>]
  /\ outbox = [p \in Procs |-> <<>>]
  /\ delivery_failed = [p \in Procs |-> FALSE]
  /\ wrote = [p \in Procs |-> FALSE]
  /\ exit = [p \in Procs |-> NoneStr]
  /\ classified \in ClassifyInputs

\* build_release_email: the label of a release notification
build_release_email ==
  /\ classified.subject_type = "release"
  /\ classified.label = NoneStr
  /\ classified' = [classified EXCEPT !.label =
                      determine_release_event_type(classified.response,
                                                   classified.previous)]
  /\ UNCHANGED <<config, disk, lockHolder, clock, runs, pc, cmd, elapsed, state,
                 loaded, started, parallel_results, next, results, notifications,
                 outbox, delivery_failed, wrote, exit>>

\* build_question_email: the label of a question notification
build_question_email ==
  /\ classified.subject_type = "question"
  /\ classified.label = NoneStr
  /\ classified' = [classified EXCEPT !.label =
                      determine_question_event_type(classified.response,
                                                    classified.previous)]
  /\ UNCHANGED <<config, disk, lockHolder, clock, runs, pc, cmd, elapsed, state,
                 loaded, started, parallel_results, next, results, notifications,
                 outbox, delivery_failed, wrote, exit>>

\* build_recurring_email: the label of a recurring-event notification
build_recurring_email ==
  /\ classified.subject_type = "recurring"
  /\ classified.label = NoneStr
  /\ classified' = [classified EXCEPT !.label =
                      determine_recurring_event_type(classified.response,
                                                     classified.previous)]
  /\ UNCHANGED <<config, disk, lockHolder, clock, runs, pc, cmd, elapsed, state,
                 loaded, started, parallel_results, next, results, notifications,
                 outbox, delivery_failed, wrote, exit>>

NextClassify ==
  \/ build_release_email
  \/ build_question_email
  \/ build_recurring_email

SpecClassify == InitClassify /\ [][NextClassify]_vars

\* ================================================================ claims
\* p is past a successful load_state and still holds what it loaded
Loaded(p) ==
  \/ pc[p] \in {"body", "investigate", "reconcile", "save", "write"}
  \/ pc[p] = "ret" /\ exit[p] \notin {"StateLocked", "Json"} /\ cmd[p].name # "show"

\* p is between a successful FileLock::acquire and the drop of the handle
InLock(p) ==
  \/ pc[p] \in {"load", "body", "investigate", "reconcile", "save", "write"}
  \/ pc[p] = "ret" /\ exit[p] # "StateLocked" /\ cmd[p].name # "show"

\* p's check run is past the selection
Selected(p) ==
  /\ cmd[p].name = "check"
  /\ \/ pc[p] \in {"investigate", "reconcile", "save", "write"}
     \/ pc[p] = "ret" /\ exit[p] \notin {"StateLocked", "Json"}

AtLimit(st, id) ==
  /\ id \in DOMAIN st.subjects
  /\ st.subjects[id].consecutive_failures >= config.max_consecutive_failures

Range(seq) == {seq[i] : i \in DOMAIN seq}

\* C1: a subject whose stored consecutiveFailures is at or above
\* maxConsecutiveFailures when a check run loads the document is never handed
\* to the research backend, with or without a single-subject filter, and the
\* run leaves its entry as it was, so the next run skips it again.
C1_SkipAtFailureLimit ==
  \A p \in Procs : Selected(p) =>
    \A id \in 1..NumSubjects : AtLimit(loaded[p], id) =>
      /\ id \notin Range(started[p])
      /\ id \in DOMAIN state[p].subjects
      /\ state[p].subjects[id] = loaded[p].subjects[id]

\* a second check run after a persisted one skips subject 1 and checks others
C1_Witness ==
  \E p \in Procs :
    /\ Selected(p) /\ pc[p] = "ret" /\ wrote[p]
    /\ AtLimit(loaded[p], 1)
    /\ loaded[p].last_run > SeedTime
    /\ started[p] # <<>>

\* the target list of a check run, by position in the configuration
IsTarget(p, i) ==
  IF cmd[p].subject_key = 0 THEN config.subjects[i].enabled
  ELSE /\ config.subjects[i].id = cmd[p].subject_key
       /\ \A j \in 1..(i - 1) : config.subjects[j].id # cmd[p].subject_key

Eligible(p, i) == IsTarget(p, i) /\ ~ AtLimit(loaded[p], config.subjects[i].id)

EligibleBefore(p, i) == Cardinality({j \in 1..(i - 1) : Eligible(p, j)})

\* C2: the backend is called for at most maxSearchesPerRun subjects, and they
\* are exactly the first maxSearchesPerRun targets, in configuration order,
\* among those that passed the consecutive-failure filter.
C2_FilterThenTruncate ==
  \A p \in Procs : Selected(p) =>
    /\ Len(started[p]) <= config.max_searches_per_run
    /\ \A i \in DOMAIN config.subjects :
         (config.subjects[i].id \in Range(started[p]))
           <=> (Eligible(p, i) /\ EligibleBefore(p, i) < config.max_searches_per_run)
    /\ \A a, b \in DOMAIN started[p] : a < b => started[p][a] < started[p][b]

\* an unfiltered run drops a subject at the limit and truncates an eligible one
C2_Witness ==
  \E p \in Procs :
    /\ Selected(p) /\ cmd[p].subject_key = 0
    /\ started[p] # <<>>
    /\ \E i \in DOMAIN config.subjects :
         IsTarget(p, i) /\ AtLimit(loaded[p], config.subjects[i].id)
    /\ \E i \in DOMAIN config.subjects :
         Eligible(p, i) /\ config.subjects[i].id \notin Range(started[p])

DiskIs(st) ==
  IF disk.exists THEN ParseOk(disk.content) /\ Deserialize(disk.content) = st
  ELSE st = DefaultState

\* C3: a check run with --dry-run never writes state.json: whatever the
\* backend returns, the document on disk stays the one the run loaded.
C3_DryRunLeavesDiskUnchanged ==
  \A p \in Procs :
    (cmd[p].name = "check" /\ cmd[p].dry_run /\ Loaded(p)) =>
      /\ ~ wrote[p]
      /\ DiskIs(loaded[p])

\* a dry run over an existing document ends after reconciling a notify-worthy
\* finding
C3_Witness ==
  \E p \in Procs :
    /\ cmd[p].name = "check" /\ cmd[p].dry_run /\ pc[p] = "ret"
    /\ disk.exists
    /\ \E i \in DOMAIN parallel_results[p] :
         /\ parallel_results[p][i].status = "ok"
         /\ parallel_results[p][i].should_notify
         /\ i < next[p]

\* C4: a notify run whose delivery failed (the digest send, or one of the
\* per-entry sends) and whose save completed leaves on disk a queue holding
\* every drained entry in the original order, and returns EmailDeliveryFailed.
C4_FailedDeliveryRestoresWholeQueue ==
  \A p \in Procs :
    (cmd[p].name = "notify" /\ pc[p] = "ret" /\ delivery_failed[p] /\ exit[p] # "Io") =>
      /\ exit[p] = "EmailDeliveryFailed"
      /\ notifications[p] = loaded[p].pending_notifications
      /\ disk.exists /\ ParseOk(disk.content)
      /\ Deserialize(disk.content).pending_notifications = notifications[p]
      /\ Deserialize(disk.content).subjects = loaded[p].subjects

\* per-entry mode: the first send was accepted, a later one failed
C4_Witness ==
  \E p \in Procs :
    /\ cmd[p].name = "notify" /\ pc[p] = "ret" /\ exit[p] = "EmailDeliveryFailed"
    /\ Len(notifications[p]) >= 2
    /\ Len(outbox[p]) >= 1

\* C5: at most one process is between a successful load_state and the
\* release of its lock handle, and that process is the holder of the flock.
C5_OneLockHolder ==
  /\ \A p, q \in Procs : (InLock(p) /\ InLock(q)) => p = q
  /\ \A p \in Procs : InLock(p) => lockHolder = p

\* one process is writing the document while another polls for the lock
C5_Witness ==
  \E p, q \in Procs :
    /\ p # q
    /\ pc[p] = "write"
    /\ pc[q] = "acquire" /\ elapsed[q] > 0

\* C6: a process whose wait bound has run out while another process holds
\* the lock leaves FileLock::acquire with StateLocked; it has loaded nothing,
\* does not hold the lock and never enters fs::write.
C6_LockTimeoutFailsFast ==
  /\ [](\A p \in Procs :
          (pc[p] = "ret" /\ exit[p] = "StateLocked") =>
            /\ ~ wrote[p]
            /\ lockHolder # p
            /\ state[p] = DefaultState)
  /\ [][\A p \in Procs :
          (/\ pc[p] = "acquire"
           /\ elapsed[p] >= LockWaitTicks
           /\ lockHolder \notin {0, p}
           /\ pc'[p] # "acquire")
          => \/ pc'[p] = "ret" /\ exit'[p] = "StateLocked" /\ disk' = disk
             \/ pc'[p] = "idle" /\ disk' = disk]_vars

\* B has given up with StateLocked while A still holds the lock
C6_Witness ==
  \E p, q \in Procs :
    /\ p # q
    /\ pc[p] = "ret" /\ exit[p] = "StateLocked" /\ elapsed[p] = LockWaitTicks
    /\ lockHolder = q /\ InLock(q)

\* C7: a read-only load made while a writer is inside save_state returns the
\* complete document from before the save or the complete one from after it.
C7_ReaderNeverSeesTornDocument ==
  [][\A p, q \in Procs :
       (/\ pc[p] = "idle" /\ pc'[p] = "ret" /\ cmd'[p].name = "show"
        /\ pc[q] \in {"save", "write"})
       => /\ exit'[p] = "Success"
          /\ state'[p] \in {loaded[q], state[q]}]_vars

\* C8: when no fs::write is in progress (it completed, returned an error, or
\* its process was killed), state.json holds a complete document.
C8_NoPartialDocumentLeftBehind ==
  (\A p \in Procs : pc[p] # "write") => (disk.exists => ParseOk(disk.content))

StoredHistory(st, id) ==
  IF id \in DOMAIN st.subjects THEN st.subjects[id].history ELSE <<>>

LastN(seq, n) == IF Len(seq) > n THEN SubSeq(seq, Len(seq) - n + 1, Len(seq)) ELSE seq

BoundedOrdered(history) ==
  /\ Len(history) <= config.max_history_entries
  /\ \A a, b \in DOMAIN history : a < b => history[a].timestamp <= history[b].timestamp

\* p's reconciliation loop handles its next pair in this step
Reconciles(p) == pc[p] = "reconcile" /\ next'[p] = next[p] + 1

ExpectedReason(error) ==
  CASE error = "ClaudeTimeout" -> "timeout"
    [] error = "PerplexityTimeout" -> "timeout"
    [] error = "ClaudeParseError" -> "parse_error"
    [] OTHER -> "api_error"

StoredFailures(st, id) ==
  IF id \in DOMAIN st.subjects THEN st.subjects[id].consecutive_failures ELSE 0

\* C10: reconciling a failed investigation without --dry-run raises the
\* subject's consecutiveFailures by exactly 1 and records the failure time
\* and the reason (timeout, parse_error or api_error by kind of error); the
\* subject's other fields and its history stay as they were.
C10_FailureBookkeeping ==
  [][\A p \in Procs :
       (/\ Reconciles(p)
        /\ parallel_results[p][next[p]].status = "err"
        /\ ~ cmd[p].dry_run)
       => LET pair == parallel_results[p][next[p]]
              id == pair.subject.id
          IN  /\ id \in DOMAIN state'[p].subjects
              /\ state'[p].subjects[id].consecutive_failures
                   = StoredFailures(state[p], id) + 1
              /\ state'[p].subjects[id].last_failure_reason = ExpectedReason(pair.error)
              /\ state'[p].subjects[id].last_failure_time = clock
              /\ StoredHistory(state'[p], id) = StoredHistory(state[p], id)]_vars

\* the part of C10 that holds of the code: subjects that have a stored entry
C10_FailureBookkeepingStored ==
  [][\A p \in Procs :
       (/\ Reconciles(p)
        /\ parallel_results[p][next[p]].status = "err"
        /\ ~ cmd[p].dry_run
        /\ parallel_results[p][next[p]].subject.id \in DOMAIN state[p].subjects)
       => LET pair == parallel_results[p][next[p]]
              id == pair.subject.id
              before == state[p].subjects[id]
              after == state'[p].subjects[id]
          IN  /\ after.consecutive_failures = before.consecutive_failures + 1
              /\ after.last_failure_reason = ExpectedReason(pair.error)
              /\ after.last_failure_time = clock
              /\ [after EXCEPT !.consecutive_failures = 0,
                               !.last_failure_reason = NoneStr,
                               !.last_failure_time = NoTime]
                 = [before EXCEPT !.consecutive_failures = 0,
                                  !.last_failure_reason = NoneStr,
                                  !.last_failure_time = NoTime]
              /\ \A other \in DOMAIN state[p].subjects :
                   other # id => state'[p].subjects[other] = state[p].subjects[other]
              /\ state'[p].pending_notifications = state[p].pending_notifications]_vars

\* p's command is running on the State it loaded, in this step and the next
Running(p) ==
  /\ pc[p] \in {"body", "investigate", "reconcile", "save", "write"}
  /\ pc'[p] # "idle"

\* p's loop handles, in this step, the pair of subject id with this status
ReconcilesOf(p, id, status) ==
  /\ Reconciles(p)
  /\ parallel_results[p][next[p]].subject.id = id
  /\ parallel_results[p][next[p]].status = status

\* C11: reconciling a successful finding without --dry-run leaves the subject
\* with consecutiveFailures = 0 and no lastFailureReason or lastFailureTime;
\* a stored counter changes in no other way than to 0 by such a success and
\* by +1 by a failed check of the same subject, so it counts the failed
\* checks since the last successful one.
C11_SuccessResetsFailures ==
  [][\A p \in Procs :
       /\ \A id \in 1..NumSubjects :
            (ReconcilesOf(p, id, "ok") /\ ~ cmd[p].dry_run) =>
              /\ id \in DOMAIN state'[p].subjects
              /\ state'[p].subjects[id].consecutive_failures = 0
              /\ state'[p].subjects[id].last_failure_reason = NoneStr
              /\ state'[p].subjects[id].last_failure_time = NoTime
       /\ Running(p) =>
            \A id \in (DOMAIN state[p].subjects) \cap (DOMAIN state'[p].subjects) :
              LET before == state[p].subjects[id].consecutive_failures
                  after == state'[p].subjects[id].consecutive_failures
              IN  \/ after = before
                  \/ ReconcilesOf(p, id, "ok") /\ after = 0
                  \/ ReconcilesOf(p, id, "err") /\ after = before + 1]_vars

\* a subject loaded with recorded failures was checked successfully and the
\* run was saved
C11_Witness ==
  \E p \in Procs : \E id \in DOMAIN loaded[p].subjects :
    /\ Selected(p) /\ ~ cmd[p].dry_run /\ pc[p] = "ret" /\ wrote[p]
    /\ loaded[p].subjects[id].consecutive_failures > 0
    /\ loaded[p].subjects[id].last_failure_reason # NoneStr
    /\ id \in DOMAIN state[p].subjects
    /\ state[p].subjects[id].consecutive_failures = 0
    /\ state[p].subjects[id].last_checked = clock

\* C12: when a failed check without --dry-run brings a subject's
\* consecutiveFailures up to maxConsecutiveFailures, the subject's enabled
\* flag becomes false and one administrative message is sent in that step,
\* the pending queue being left alone.
C12_AutoDisableAtLimit ==
  [][\A p \in Procs : \A id \in 1..NumSubjects :
       (/\ ReconcilesOf(p, id, "err")
        /\ ~ cmd[p].dry_run
        /\ StoredFailures(state[p], id) < config.max_consecutive_failures
        /\ StoredFailures(state'[p], id) = config.max_consecutive_failures)
       => /\ \A i \in DOMAIN config'.subjects :
               config'.subjects[i].id = id => ~ config'.subjects[i].enabled
          /\ Len(outbox'[p]) = Len(outbox[p]) + 1
          /\ state'[p].pending_notifications = state[p].pending_notifications]_vars

\* p's check run handed subjects to the backend and the whole batch came back
BatchCompleted(p) ==
  /\ cmd[p].name = "check"
  /\ started[p] # <<>>
  /\ Len(parallel_results[p]) = Len(started[p])
  /\ AllDone(parallel_results[p])

Succeeded(p) == {i \in DOMAIN parallel_results[p] : parallel_results[p][i].status = "ok"}

\* C13: a check run that attempted at least one subject and whose batch
\* completed returns Success when every attempted subject succeeded,
\* PartialFailure when some succeeded and some failed, and AllSubjectsFailed
\* when none succeeded.
C13_ExitClassification ==
  \A p \in Procs :
    (BatchCompleted(p) /\ pc[p] = "ret" /\ exit[p] \notin {"Io", "panic"}) =>
      exit[p] = IF Succeeded(p) = DOMAIN parallel_results[p] THEN "Success"
                ELSE IF Succeeded(p) = {} THEN "AllSubjectsFailed"
                ELSE "PartialFailure"

\* a run of two subjects: one finding, one backend error
C13_Witness ==
  \E p \in Procs :
    /\ BatchCompleted(p) /\ pc[p] = "ret"
    /\ exit[p] = "PartialFailure"
    /\ Succeeded(p) # {} /\ Succeeded(p) # DOMAIN parallel_results[p]

\* p's check run lost its batch to tokio::time::timeout
TimedOut(p) ==
  /\ cmd[p].name = "check"
  /\ started[p] # <<>>
  /\ parallel_results[p] = <<>>
  /\ pc[p] \in {"reconcile", "save", "write", "ret"}

\* C14: a check run whose total run timeout elapsed during the concurrent
\* batch ends with the Timeout status, not with Success, PartialFailure or
\* AllSubjectsFailed.
C14_TimeoutExitStatus ==
  \A p \in Procs :
    (TimedOut(p) /\ pc[p] = "ret" /\ exit[p] # "Io") => exit[p] = "Timeout"

\* what the Delivery collaborator and the pending queue show of p's run
Routed(p) == <<outbox[p], delivery_failed[p], state[p].pending_notifications>>

\* C15: reconciling a finding whose shouldNotify is false sends nothing and
\* leaves the pending queue as it was, in every mode; a step of the loop that
\* sends or queues is the step of a finding whose flag is true.
C15_NotifyOnlyOnBackendFlag ==
  [][\A p \in Procs : Reconciles(p) =>
       LET pair == parallel_results[p][next[p]]
       IN  /\ (pair.status = "ok" /\ ~ pair.should_notify) => Routed(p)' = Routed(p)
           /\ Routed(p)' # Routed(p) => (pair.status = "ok" /\ pair.should_notify)]_vars

\* one run reconciled a finding without the flag and sent one with it
C15_Witness ==
  \E p \in Procs :
    /\ cmd[p].name = "check" /\ ~ cmd[p].dry_run /\ ~ cmd[p].no_notify
    /\ pc[p] = "ret"
    /\ \E i \in 1..(next[p] - 1) :
         parallel_results[p][i].status = "ok" /\ ~ parallel_results[p][i].should_notify
    /\ Len(outbox[p]) = 1

\* the queue entry expected for a reconciled pair
QueueEntry(pair) ==
  [subject_id |-> pair.subject.id,
   event_type |-> CASE pair.subject.subject_type = "release" -> "release_update"
                    [] pair.subject.subject_type = "question" -> "question_update"
                    [] OTHER -> "recurring_update",
   created_at |-> clock, payload |-> pair.data]

RECURSIVE QueuedBy(_)
QueuedBy(pairs) ==
  IF pairs = <<>> THEN <<>>
  ELSE (IF Head(pairs).status = "ok" /\ Head(pairs).should_notify
        THEN <<QueueEntry(Head(pairs))>> ELSE <<>>) \o QueuedBy(Tail(pairs))

\* C16: a check run with --no-notify and without --dry-run never calls the
\* Delivery collaborator, and once it has saved, the queue on disk is the
\* queue it loaded followed by one entry per finding with shouldNotify = true,
\* in selection order.
C16_NoNotifyQueuesInOrder ==
  \A p \in Procs :
    (cmd[p].name = "check" /\ cmd[p].no_notify /\ ~ cmd[p].dry_run /\ Loaded(p)) =>
      /\ outbox[p] = <<>> /\ ~ delivery_failed[p]
      /\ (pc[p] = "ret" /\ wrote[p] /\ exit[p] # "Io") =>
           /\ ParseOk(disk.content)
           /\ Deserialize(disk.content).pending_notifications
                = loaded[p].pending_notifications \o QueuedBy(parallel_results[p])

\* two flagged findings were queued behind the entries already waiting
C16_Witness ==
  \E p \in Procs :
    /\ cmd[p].name = "check" /\ cmd[p].no_notify /\ ~ cmd[p].dry_run
    /\ pc[p] = "ret" /\ wrote[p] /\ exit[p] # "Io"
    /\ loaded[p].pending_notifications # <<>>
    /\ Len(QueuedBy(parallel_results[p])) = 2
    /\ Len(Deserialize(disk.content).pending_notifications)
         = Len(loaded[p].pending_notifications) + 2

Flagged(p) ==
  {i \in DOMAIN parallel_results[p] :
     parallel_results[p][i].status = "ok" /\ parallel_results[p][i].should_notify}

\* C17: a check run in which an immediate send failed still reconciles every
\* pair of the batch and saves: each finding's state update and history entry
\* are on disk, the failed notification is not in the pending queue and no
\* message was accepted for it, and its result is success with notified false.
C17_FailedSendKeepsFinding ==
  \A p \in Procs :
    (/\ BatchCompleted(p) /\ ~ cmd[p].dry_run /\ ~ cmd[p].no_notify
     /\ delivery_failed[p]
     /\ pc[p] = "ret" /\ exit[p] \notin {"Io", "panic"}) =>
      /\ wrote[p] /\ ParseOk(disk.content)
      /\ Len(results[p]) = Len(parallel_results[p])
      /\ Deserialize(disk.content).pending_notifications = loaded[p].pending_notifications
      /\ \A i \in DOMAIN parallel_results[p] :
           LET pair == parallel_results[p][i]
               id == pair.subject.id
               stored == Deserialize(disk.content).subjects
           IN  /\ results[p][i].subject_id = id
               /\ results[p][i].success = (pair.status = "ok")
               /\ results[p][i].notified => i \in Flagged(p)
               /\ pair.status = "ok" =>
                    /\ id \in DOMAIN stored
                    /\ stored[id].last_checked = clock
                    /\ stored[id].data = pair.data
                    /\ stored[id].history # <<>>
                    /\ stored[id].history[Len(stored[id].history)]
                         = [timestamp |-> clock, event |-> "check", data |-> pair.data,
                            should_notify |-> pair.should_notify]
      /\ Cardinality({i \in DOMAIN results[p] : results[p][i].notified}) = Len(outbox[p])
      /\ Len(outbox[p]) < Cardinality(Flagged(p))

\* the send for the first finding failed, the second finding was still
\* reconciled and its message accepted
C17_Witness ==
  \E p \in Procs :
    /\ BatchCompleted(p) /\ ~ cmd[p].dry_run /\ ~ cmd[p].no_notify
    /\ delivery_failed[p] /\ pc[p] = "ret" /\ wrote[p] /\ exit[p] = "Success"
    /\ Len(results[p]) = 2
    /\ results[p][1].success /\ ~ results[p][1].notified
    /\ results[p][2].notified

\* the entries carried by the messages send_email accepted from p
Delivered(p) == UNION {Range(outbox[p][i].items) : i \in DOMAIN outbox[p]}

\* p's command has saved and some entry it loaded is no longer in the queue
\* on disk
DroppedEntry(p) ==
  /\ Loaded(p) /\ pc[p] = "ret" /\ wrote[p] /\ exit[p] # "Io"
  /\ ParseOk(disk.content)
  /\ \E i \in DOMAIN loaded[p].pending_notifications :
       loaded[p].pending_notifications[i]
         \notin Range(Deserialize(disk.content).pending_notifications)

\* C18: an entry leaves the persisted queue only by a notify run that is not
\* a dry run and whose delivery of the whole drained queue succeeded; check,
\* failed or dry-run notify, state prune and state reset remove none.
C18_QueueDrainedOnlyByDelivery ==
  \A p \in Procs :
    DroppedEntry(p) =>
      /\ cmd[p].name = "notify" /\ ~ cmd[p].dry_run
      /\ ~ delivery_failed[p]
      /\ Range(loaded[p].pending_notifications) \subseteq Delivered(p)

\* the part of C18 that holds of the code: every command but state reset
C18_QueueKeptExceptReset ==
  \A p \in Procs :
    (DroppedEntry(p) /\ cmd[p].name # "reset") =>
      /\ cmd[p].name = "notify" /\ ~ cmd[p].dry_run
      /\ ~ delivery_failed[p]
      /\ Range(loaded[p].pending_notifications) \subseteq Delivered(p)

Failed(p) == {i \in DOMAIN parallel_results[p] : parallel_results[p][i].status = "err"}

\* a subject entry with its failure bookkeeping blanked
SansFailures(ss) ==
  [ss EXCEPT !.consecutive_failures = 0, !.last_failure_reason = NoneStr,
             !.last_failure_time = NoTime]

\* C19: a check run without --dry-run in which a backend call failed still
\* reconciles every pair of the batch and saves the document: the findings
\* of the other subjects are on disk, the failing subject's entry differs from
\* the loaded one in its failure bookkeeping only, and the run ends with a
\* failure status of the check, not with an error.
C19_BackendErrorDoesNotAbort ==
  \A p \in Procs :
    (/\ BatchCompleted(p) /\ ~ cmd[p].dry_run /\ Failed(p) # {}
     /\ pc[p] = "ret" /\ exit[p] \notin {"Io", "panic"}) =>
      /\ exit[p] \in {"PartialFailure", "AllSubjectsFailed"}
      /\ Len(results[p]) = Len(parallel_results[p])
      /\ wrote[p] /\ ParseOk(disk.content)
      /\ Deserialize(disk.content).last_run = clock
      /\ \A i \in DOMAIN parallel_results[p] :
           LET pair == parallel_results[p][i]
               id == pair.subject.id
               stored == Deserialize(disk.content).subjects
           IN  IF pair.status = "ok"
               THEN /\ id \in DOMAIN stored
                    /\ stored[id].last_checked = clock
                    /\ stored[id].data = pair.data
               ELSE IF id \in DOMAIN loaded[p].subjects
               THEN /\ id \in DOMAIN stored
                    /\ SansFailures(stored[id]) = SansFailures(loaded[p].subjects[id])
               ELSE id \notin DOMAIN stored

\* the first subject's backend call failed; the second subject's finding was
\* reconciled after it and saved
C19_Witness ==
  \E p \in Procs :
    /\ BatchCompleted(p) /\ ~ cmd[p].dry_run
    /\ pc[p] = "ret" /\ wrote[p] /\ exit[p] = "PartialFailure"
    /\ parallel_results[p][1].status = "err"
    /\ Len(parallel_results[p]) = 2 /\ parallel_results[p][2].status = "ok"
    /\ ParseOk(disk.content)
    /\ Deserialize(disk.content).subjects[parallel_results[p][2].subject.id].last_checked
         = clock

Disabled == {config.subjects[i].id : i \in {j \in DOMAIN config.subjects :
                                              ~ config.subjects[j].enabled}}

\* C20: in a check run without a subject key a subject whose enabled flag is
\* false is never handed to the backend and the run leaves its stored state
\* (or the absence of one) as loaded; with a subject key, no subject other
\* than the named one is handed to the backend.
C20_DisabledNeverChecked ==
  \A p \in Procs : Selected(p) =>
    IF cmd[p].subject_key = 0
    THEN \A id \in Disabled :
           /\ id \notin Range(started[p])
           /\ (id \in DOMAIN state[p].subjects) = (id \in DOMAIN loaded[p].subjects)
           /\ id \in DOMAIN loaded[p].subjects
                => state[p].subjects[id] = loaded[p].subjects[id]
    ELSE Range(started[p]) \subseteq {cmd[p].subject_key}

\* an unfiltered run had room left under maxSearchesPerRun and still left the
\* disabled subject out
C20_Witness ==
  \E p \in Procs :
    /\ Selected(p) /\ cmd[p].subject_key = 0 /\ pc[p] = "ret"
    /\ Disabled # {}
    /\ started[p] # <<>>
    /\ Len(started[p]) < config.max_searches_per_run

\* --------------------------------------------- claims on the event labels
\* a label has been computed for the inputs held in classified
Classified == classified.label # NoneStr

\* a release or question classification from confidence Rumor to Official
RumorToOfficial ==
  /\ Classified
  /\ classified.subject_type \in {"release", "question"}
  /\ classified.previous # <<>>
  /\ classified.previous[1].confidence = "rumor"
  /\ classified.response.confidence = "official"

UpgradeLabels == {"Release Date Refined", "Confidence Upgraded", "Answer Confirmed"}

SameValue ==
  /\ Classified
  /\ classified.previous # <<>>
  /\ classified.previous[1].value # NoneStr
  /\ classified.previous[1].value = classified.response.value

\* C22: for each of the three subject types, a finding that repeats the stored
\* value with a strictly better precision or confidence rank is labelled
\* Refined or Confidence Upgraded, not Status Update; a value that differs is
\* labelled Changed; a value found where none was stored is labelled
\* Announced or Found.
C22_LabelByChange ==
  Classified /\ classified.previous # <<>> =>
    LET st == classified.previous[1]
        response == classified.response
    IN  /\ (/\ SameValue
            /\ \/ is_higher_than(response.confidence, st.confidence)
               \/ is_more_precise_than(response.precision, st.precision))
           => classified.label \in {"Release Date Refined", "Confidence Upgraded"}
        /\ (st.value # NoneStr /\ st.value # response.value)
           => classified.label \in
                {"Release Date Changed", "Answer Changed", "Event Date Changed"}
        /\ (st.value = NoneStr /\ response.value # NoneStr)
           => classified.label \in
                {"Release Date Announced", "Answer Found", "Next Event Announced"}

\* ----------------------------------------------------- claims, continued
\* C23: reconciling, without --dry-run, a finding for a release subject that
\* has no stored state, with a release date, confidence Official and
\* shouldNotify true, leaves a release entry whose known date is the found
\* one, with exactly one history entry, of event "check", and lastNotified at
\* the check time; the message sent for it is labelled Release Date Announced,
\* the label of a finding compared with no previous state.
C23_FirstReleaseFinding ==
  [][\A p \in Procs : Reconciles(p) =>
       LET pair == parallel_results[p][next[p]]
           id == pair.subject.id
       IN  (/\ pair.status = "ok"
            /\ pair.subject.subject_type = "release"
            /\ id \notin DOMAIN state[p].subjects
            /\ ~ cmd[p].dry_run
            /\ pair.should_notify
            /\ pair.data.value # NoneStr
            /\ pair.data.confidence = "official")
           => /\ id \in DOMAIN state'[p].subjects
              /\ state'[p].subjects[id].variant = "release"
              /\ state'[p].subjects[id].data.value = pair.data.value
              /\ Len(state'[p].subjects[id].history) = 1
              /\ state'[p].subjects[id].history[1].event = "check"
              /\ state'[p].subjects[id].last_notified = clock
              /\ outbox'[p] # outbox[p] =>
                   outbox'[p][Len(outbox'[p])].label = "Release Date Announced"]_vars

\* a run over no document has sent the first finding of subject 1 and saved
C23_Witness ==
  \E p \in Procs :
    /\ cmd[p].name = "check" /\ ~ cmd[p].dry_run /\ ~ cmd[p].no_notify
    /\ pc[p] = "ret" /\ wrote[p] /\ exit[p] = "Success"
    /\ 1 \notin DOMAIN loaded[p].subjects
    /\ 1 \in DOMAIN state[p].subjects
    /\ state[p].subjects[1].data.value = "b"
    /\ Len(outbox[p]) = 1
    /\ outbox[p][1].label = "Release Date Announced"

\* state.json exists and its text does not parse
Malformed == disk.exists /\ ~ ParseOk(disk.content)

\* C24: a command that loads the document under the lock (check, notify,
\* state prune, state reset) and finds it malformed leaves load_state with the
\* deserialization error and state.json as it is; it never goes on with the
\* default State, and until it exits it has written nothing and the document
\* is still the malformed one.
C24_MalformedDocumentIsFatal ==
  /\ [](\A p \in Procs :
          (pc[p] = "ret" /\ exit[p] = "Json" /\ cmd[p].name # "show") =>
            /\ cmd[p].name \in {"check", "notify", "prune", "reset"}
            /\ ~ wrote[p]
            /\ Malformed
            /\ started[p] = <<>> /\ outbox[p] = <<>>)
  /\ [][\A p \in Procs :
          (pc[p] = "load" /\ Malformed /\ pc'[p] # "load")
          => /\ disk' = disk
             /\ \/ pc'[p] = "ret" /\ exit'[p] = "Json" /\ state'[p] = state[p]
                \/ pc'[p] = "idle"]_vars

\* a state reset has stopped at a document torn by an earlier command
C24_Witness ==
  \E p \in Procs :
    /\ pc[p] = "ret" /\ exit[p] = "Json"
    /\ cmd[p].name = "reset"
    /\ Malformed

\* the entry stored for the pair's subject is of another variant than the
\* subject's configured type
Mismatched(p, i) ==
  LET subject == parallel_results[p][i].subject
  IN  /\ subject.id \in DOMAIN loaded[p].subjects
      /\ loaded[p].subjects[subject.id].variant # subject.subject_type

\* C25: a check run that investigates a subject whose stored state is of
\* another variant than its configured type fails loudly: the backend is never
\* given an absent prior state in place of the stored one, the stored entry is
\* not updated, and the run ends with the panic of the variant test.
C25_VariantMismatchFailsLoudly ==
  \A p \in Procs : Selected(p) =>
    \A i \in DOMAIN parallel_results[p] :
      LET pair == parallel_results[p][i]
      IN  Mismatched(p, i) =>
            /\ pair.status # "pending" => pair.prior # <<>>
            /\ state[p].subjects[pair.subject.id] = loaded[p].subjects[pair.subject.id]
            /\ pc[p] = "ret" => exit[p] = "panic"

\* a successful finding for a mismatched entry does end the run in the panic
C25_SuccessPanics ==
  \A p \in Procs : Selected(p) =>
    \A i \in DOMAIN parallel_results[p] :
      (Mismatched(p, i) /\ parallel_results[p][i].status = "ok" /\ pc[p] = "ret")
        => exit[p] = "panic"

ConfiguredIds == {config.subjects[i].id : i \in DOMAIN config.subjects}

\* C26: no step of a check run or of a notify run removes a subject's entry
\* from the State, so the document such a run saves has every entry it
\* loaded; an entry is removed only by state reset (the entry of the named
\* subject, or all entries) and by state prune, which removes exactly the
\* entries whose id is not the id of a configured subject; the entries that
\* stay are unchanged.
C26_EntriesRemovedOnlyByResetOrPrune ==
  /\ [](\A p \in Procs :
          (Loaded(p) /\ cmd[p].name \in {"check", "notify"}) =>
            DOMAIN loaded[p].subjects \subseteq DOMAIN state[p].subjects)
  /\ [][\A p \in Procs : Running(p) =>
          LET before == state[p].subjects
              after == state'[p].subjects
              removed == (DOMAIN before) \ (DOMAIN after)
              named == find_subject(config, cmd[p].subject_key)
          IN  /\ removed # {} =>
                   /\ cmd[p].name \in {"reset", "prune"}
                   /\ \A id \in DOMAIN after : id \in DOMAIN before /\ after[id] = before[id]
              /\ (cmd[p].name = "prune" /\ pc[p] = "body" /\ pc'[p] # "body") =>
                   /\ removed = (DOMAIN before) \ ConfiguredIds
                   /\ \A id \in DOMAIN after : after[id] = before[id]
              /\ (cmd[p].name = "reset" /\ removed # {}) =>
                   IF cmd[p].subject_key # 0
                   THEN named # <<>> /\ removed = {named[1].id}
                   ELSE after = [x \in {} |-> 0]]_vars

\* state prune has saved a document without the orphan and with the entries
\* of the configured subjects
C26_Witness ==
  \E p \in Procs :
    /\ cmd[p].name = "prune" /\ pc[p] = "ret" /\ wrote[p] /\ exit[p] = "Success"
    /\ OrphanId \in DOMAIN loaded[p].subjects
    /\ DiskIs(state[p])
    /\ DOMAIN state[p].subjects = {1, 2}

\* C27: state.json changes only in a step of the process that holds the lock
\* and is inside save_state; that process has held the lock since its
\* load_state, and until it writes the document is still the one it loaded,
\* so what it writes is computed from everything written before it: no update
\* of an earlier command is lost.
C27_NoLostUpdate ==
  /\ [](\A p \in Procs :
          /\ (pc[p] \in {"save", "write"} \/ wrote[p]) => lockHolder = p
          /\ (Loaded(p) /\ ~ wrote[p]) => (lockHolder = p /\ DiskIs(loaded[p])))
  /\ [][disk' # disk =>
          \E p \in Procs :
            /\ lockHolder = p /\ lockHolder' = p
            /\ pc[p] \in {"save", "write"}]_vars

\* a command has saved a document computed from one that an earlier command
\* of this behaviour had saved
C27_Witness ==
  \E p \in Procs :
    /\ pc[p] = "ret" /\ wrote[p] /\ exit[p] = "Success"
    /\ loaded[p] \notin {DefaultState, SeedState, SeedEdited}
    /\ DiskIs(state[p])
    /\ state[p] # loaded[p]

\* the entries of st other than that of id
Others(st, id) == [x \in (DOMAIN st.subjects) \ {id} |-> st.subjects[x]]

\* C28: the loop over the results runs only when every future of the batch
\* has completed or the batch has timed out; each pass handles one subject,
\* the next one in selection order whatever the order of completion was, and
\* changes no other subject's entry, so the results are in selection order.
C28_ReconcileAfterBatchInOrder ==
  /\ [](\A p \in Procs :
          (cmd[p].name = "check" /\ pc[p] \in {"reconcile", "save", "write"}) =>
            \/ parallel_results[p] = <<>>
            \/ /\ Len(parallel_results[p]) = Len(started[p])
               /\ AllDone(parallel_results[p]))
  /\ [](\A p \in Procs : Selected(p) =>
          /\ Len(results[p]) <= Len(started[p])
          /\ \A i \in DOMAIN results[p] : results[p][i].subject_id = started[p][i])
  /\ [][\A p \in Procs : Reconciles(p) =>
          LET id == started[p][next[p]]
          IN  /\ parallel_results[p][next[p]].subject.id = id
              /\ Len(results'[p]) = next[p]
              /\ results'[p][next[p]].subject_id = id
              /\ Others(state'[p], id) = Others(state[p], id)]_vars

\* in a batch of two the first result has been applied and the second, a
\* failure, has not yet
C28_Witness ==
  \E p \in Procs :
    /\ pc[p] = "reconcile" /\ next[p] = 2
    /\ Len(started[p]) = 2
    /\ parallel_results[p][1].status = "ok"
    /\ parallel_results[p][2].status = "err"
    /\ state[p].subjects[started[p][1]] # loaded[p].subjects[started[p][1]]
    /\ state[p].subjects[started[p][2]] = loaded[p].subjects[started[p][2]]

\* C29: every future of the batch carries the clone of its subject's entry as
\* load_state returned it (or none, if there was no entry); while the batch is
\* in flight the State is the loaded one and no step changes it, and the
\* clones stay as they were taken while the loop reconciles other subjects.
C29_InvestigationsSeeLoadedState ==
  /\ [](\A p \in Procs :
          /\ pc[p] = "investigate" => state[p] = loaded[p]
          /\ Selected(p) =>
               \A i \in DOMAIN parallel_results[p] :
                 parallel_results[p][i].state_snapshot
                   = subject_state(loaded[p], parallel_results[p][i].subject.id))
  /\ [][\A p \in Procs :
          (pc[p] = "investigate" /\ pc'[p] \in {"investigate", "reconcile"})
            => state'[p] = state[p]]_vars

\* both subjects of a batch have been reconciled, and the clone each future
\* was given is still the entry that was loaded
C29_Witness ==
  \E p \in Procs :
    /\ pc[p] = "reconcile" /\ next[p] = 3
    /\ \A i \in {1, 2} :
         /\ parallel_results[p][i].status = "ok"
         /\ parallel_results[p][i].state_snapshot # <<>>
         /\ parallel_results[p][i].state_snapshot[1]
              # state[p].subjects[parallel_results[p][i].subject.id]

\* p's batch was cut off by the total run timeout: the loop is reached with
\* fewer pairs than futures were started
CutOff(p) ==
  /\ cmd[p].name = "check"
  /\ pc[p] \in {"reconcile", "save", "write", "ret"}
  /\ Len(parallel_results[p]) < Len(started[p])

\* C30: a check run whose batch was cut off by the total run timeout
\* reconciles nothing, whatever futures had completed before: it has no
\* result, sends and queues nothing, its subjects map (with every history and
\* failure counter) and its pending queue stay as loaded, and so are those of
\* the document it saves.
C30_TimeoutReconcilesNothing ==
  \A p \in Procs : CutOff(p) =>
    /\ parallel_results[p] = <<>>
    /\ results[p] = <<>>
    /\ outbox[p] = <<>> /\ ~ delivery_failed[p]
    /\ state[p].subjects = loaded[p].subjects
    /\ state[p].pending_notifications = loaded[p].pending_notifications
    /\ (pc[p] = "ret" /\ wrote[p] /\ exit[p] # "Io") =>
         /\ disk.exists /\ ParseOk(disk.content)
         /\ Deserialize(disk.content).subjects = loaded[p].subjects
         /\ Deserialize(disk.content).pending_notifications
              = loaded[p].pending_notifications

\* a batch of two was cut off and the run has saved: only last_run is new
C30_Witness ==
  \E p \in Procs :
    /\ CutOff(p) /\ Len(started[p]) = 2
    /\ pc[p] = "ret" /\ wrote[p] /\ exit[p] # "Io"
    /\ loaded[p].subjects # [x \in {} |-> 0]
    /\ loaded[p].pending_notifications # <<>>
    /\ DiskIs([loaded[p] EXCEPT !.last_run = state[p].last_run])
    /\ state[p].last_run # loaded[p].last_run

\* C31: a check run without --dry-run whose backend call failed for a subject
\* that had no stored entry leaves, once the pair is reconciled, an entry for
\* that subject with consecutiveFailures = 1 and the failure reason and time
\* recorded.
C31_FailureCreatesEntry ==
  \A p \in Procs :
    (Selected(p) /\ ~ cmd[p].dry_run) =>
      \A i \in DOMAIN parallel_results[p] :
        LET pair == parallel_results[p][i]
            id == pair.subject.id
        IN  (pair.status = "err" /\ i < next[p] /\ id \notin DOMAIN loaded[p].subjects)
            => /\ id \in DOMAIN state[p].subjects
               /\ state[p].subjects[id].consecutive_failures = 1
               /\ state[p].subjects[id].last_failure_reason = failure_reason(pair.error)
               /\ state[p].subjects[id].last_failure_time # NoTime

\* C32: in a check run with --dry-run the loop over the results leaves the
\* State in memory as it was loaded: no subject entry is created or changed,
\* no history entry is appended, the pending queue is unchanged and send_email
\* is never called, while the result of a successful finding is reported.
C32_DryRunLeavesStateInMemory ==
  \A p \in Procs :
    (Selected(p) /\ cmd[p].dry_run) =>
      /\ state[p].subjects = loaded[p].subjects
      /\ state[p].pending_notifications = loaded[p].pending_notifications
      /\ outbox[p] = <<>> /\ ~ delivery_failed[p]
      /\ \A i \in DOMAIN results[p] : ~ results[p][i].notified

\* the part of C32 that holds of the code: the entries that were loaded, the
\* queue and the outbox
C32_DryRunLeavesLoadedEntries ==
  \A p \in Procs :
    (Selected(p) /\ cmd[p].dry_run) =>
      /\ \A id \in DOMAIN loaded[p].subjects :
           id \in DOMAIN state[p].subjects
           /\ state[p].subjects[id] = loaded[p].subjects[id]
      /\ state[p].pending_notifications = loaded[p].pending_notifications
      /\ outbox[p] = <<>> /\ ~ delivery_failed[p]

\* C33: with digest mode configured, a check run without --no-notify and
\* without --dry-run appends each finding whose shouldNotify is true to the
\* pending queue and sends nothing for it.
C33_DigestModeQueues ==
  [][\A p \in Procs :
       (/\ Reconciles(p)
        /\ cmd[p].name = "check" /\ ~ cmd[p].no_notify /\ ~ cmd[p].dry_run
        /\ config.digest_mode
        /\ parallel_results[p][next[p]].status = "ok"
        /\ parallel_results[p][next[p]].should_notify)
       => /\ state'[p].pending_notifications =
               Append(state[p].pending_notifications,
                      QueueEntry(parallel_results[p][next[p]]))
          /\ outbox'[p] = outbox[p]
          /\ delivery_failed'[p] = delivery_failed[p]]_vars

\* C34: the exclusive lock is released on every exit path of a command that
\* took it: whatever status the command returns with (success, nothing to do,
\* an error, a run timeout, a panic) and when the process is killed, the lock
\* is free once the process is gone, and a process that finds it free in
\* FileLock::acquire takes it instead of timing out.
C34_LockReleasedOnEveryExit ==
  /\ [](\A p \in Procs : lockHolder = p => InLock(p))
  /\ [][\A p \in Procs :
          /\ (lockHolder = p /\ pc[p] # "idle" /\ pc'[p] = "idle") => lockHolder' = 0
          /\ (pc[p] = "acquire" /\ pc'[p] = "ret") => lockHolder # 0
          /\ (pc[p] = "acquire" /\ pc'[p] = "load") => (lockHolder = 0 /\ lockHolder' = p)]_vars

\* the first invocation held the lock and is gone; the second one holds it
C34_Witness ==
  /\ pc[1] = "idle"
  /\ lockHolder = 2 /\ pc[2] = "body"
  /\ clock = SeedTime + 2

\* the lastNotified a subject has in st (none when it has no entry)
LastNotified(st, id) ==
  IF id \in DOMAIN st.subjects THEN st.subjects[id].last_notified ELSE NoTime

\* C35: reconciling a successful finding without --dry-run stores the
\* finding's fields as they are, sets lastChecked to the time of the check,
\* and sets lastNotified to that time exactly when shouldNotify is true (it
\* keeps its value otherwise), whether the notification is sent, queued or
\* fails to send.
C35_ReconcileCopiesFinding ==
  [][\A p \in Procs :
       (/\ Reconciles(p)
        /\ parallel_results[p][next[p]].status = "ok"
        /\ ~ cmd[p].dry_run)
       => LET pair == parallel_results[p][next[p]]
              id == pair.subject.id
          IN  /\ id \in DOMAIN state'[p].subjects
              /\ state'[p].subjects[id].data = pair.data
              /\ state'[p].subjects[id].last_checked = clock
              /\ state'[p].subjects[id].last_notified =
                   IF pair.should_notify THEN clock ELSE LastNotified(state[p], id)]_vars

\* a finding with shouldNotify whose send failed is stored with lastNotified
\* set to the time of the check
C35_Witness ==
  \E p \in Procs :
    /\ Selected(p) /\ ~ cmd[p].dry_run /\ ~ cmd[p].no_notify
    /\ delivery_failed[p] /\ outbox[p] = <<>>
    /\ \E i \in DOMAIN parallel_results[p] :
         LET pair == parallel_results[p][i]
         IN  /\ i < next[p] /\ pair.status = "ok" /\ pair.should_notify
             /\ pair.subject.id \in DOMAIN state[p].subjects
             /\ state[p].subjects[pair.subject.id].data = pair.data
             /\ state[p].subjects[pair.subject.id].last_notified = clock
             /\ LastNotified(loaded[p], pair.subject.id) # clock

\* p's command has come back from a save_state that returned Ok
Saved(p) == pc[p] = "ret" /\ wrote[p] /\ exit[p] # "Io"

C37_AtLimitEntryFrozen ==
  /\ [](\A p \in Procs :
          (Loaded(p) /\ cmd[p].name \in {"check", "notify"}) =>
            \A id \in DOMAIN loaded[p].subjects : AtLimit(loaded[p], id) =>
              /\ id \in DOMAIN state[p].subjects
              /\ state[p].subjects[id] = loaded[p].subjects[id]
              /\ Saved(p) =>
                   /\ id \in DOMAIN Deserialize(disk.content).subjects
                   /\ Deserialize(disk.content).subjects[id] = loaded[p].subjects[id])
  /\ [][\A p \in Procs : Running(p) =>
          \A id \in DOMAIN state[p].subjects :
            (/\ AtLimit(state[p], id)
             /\ \/ id \notin DOMAIN state'[p].subjects
                \/ state'[p].subjects[id] # state[p].subjects[id])
            => cmd[p].name \in {"reset", "prune"}]_vars

\* after an earlier command has saved, a check run filtered to subject 1,
\* which is at the limit, ends with nothing to check
C37_Witness ==
  \E p \in Procs :
    /\ cmd[p].name = "check" /\ cmd[p].subject_key = 1
    /\ pc[p] = "ret" /\ exit[p] = "Success" /\ started[p] = <<>>
    /\ AtLimit(loaded[p], 1)
    /\ loaded[p].last_run > SeedTime
    /\ state[p].subjects[1] = loaded[p].subjects[1]

\* the document on disk holds the finding of a delivered notification: the
\* subject's entry carries its fields and its history ends with its entry
Persisted(item) ==
  /\ disk.exists /\ ParseOk(disk.content)
  /\ LET doc == Deserialize(disk.content)
     IN  /\ item.subject_id \in DOMAIN doc.subjects
         /\ doc.subjects[item.subject_id].data = item.payload
         /\ doc.subjects[item.subject_id].history # <<>>
         /\ LET h == doc.subjects[item.subject_id].history
            IN  h[Len(h)].data = item.payload /\ h[Len(h)].timestamp = item.created_at

\* C38: a check run that has delivered an immediate notification ends with
\* the finding's update and history entry in the document it persisted,
\* whatever happens to the subjects reconciled after it and to the save.
C38_DeliveredImpliesPersisted ==
  \A p \in Procs :
    (cmd[p].name = "check" /\ pc[p] = "ret") =>
      \A item \in Delivered(p) : Persisted(item)

\* the part of C38 that holds of the code: a check run that delivered and
\* came back from its save without a panic or a write error has persisted
\* every delivered finding
C38_DeliveredPersistedWhenSaved ==
  \A p \in Procs :
    (cmd[p].name = "check" /\ pc[p] = "ret" /\ exit[p] \notin {"panic", "Io"}) =>
      \A item \in Delivered(p) : Persisted(item)

\* p is a notify run in per-entry mode that got as far as sending
PerEntry(p) ==
  /\ cmd[p].name = "notify" /\ ~ cmd[p].dry_run
  /\ ~ cmd[p].digest /\ ~ config.digest_mode
  /\ pc[p] \in {"save", "write", "ret"} /\ notifications[p] # <<>>

\* C39: in per-entry notify mode, when the delivery of the k-th entry fails
\* after k-1 entries were delivered, nothing after it is sent and the whole
\* drained queue, the k-1 delivered entries included, is put back and saved;
\* a notify run whose sends all succeed delivers every entry of the queue it
\* loaded, so a later run sends the k-1 entries a second time.
C39_PartialDeliveryIsRepeated ==
  \A p \in Procs : PerEntry(p) =>
    /\ \A i \in DOMAIN outbox[p] :
         i <= Len(notifications[p]) /\ outbox[p][i].items = <<notifications[p][i]>>
    /\ notifications[p] = loaded[p].pending_notifications
    /\ delivery_failed[p] =>
         /\ Len(outbox[p]) < Len(notifications[p])
         /\ state[p].pending_notifications = loaded[p].pending_notifications
         /\ Saved(p) => Deserialize(disk.content).pending_notifications
                          = loaded[p].pending_notifications
    /\ ~ delivery_failed[p] =>
         /\ Len(outbox[p]) = Len(notifications[p])
         /\ state[p].pending_notifications = <<>>

\* a notify run delivered the first entry, failed on the second and saved the
\* queue with both entries
C39_Witness ==
  \E p \in Procs :
    /\ PerEntry(p) /\ Saved(p) /\ delivery_failed[p]
    /\ Len(notifications[p]) >= 2
    /\ Len(outbox[p]) = Len(notifications[p]) - 1
    /\ outbox[p][1].items[1] \in Range(Deserialize(disk.content).pending_notifications)

\* ------------------------------------------ repeated notify runs (liveness)
\* `headsup notify` run again and again (from cron), without --dry-run and
\* with or without --digest, on a document whose queue was filled by check
\* runs with --no-notify. notify reads no time and the number of invocations
\* is not limited, so these runs leave clock and runs alone.
NotifyCommands == {c \in Commands : c.name = "notify" /\ ~ c.dry_run}

InitLive ==
  /\ config \in Configs
  /\ disk = FileOf(SeedState)
  /\ lockHolder = 0
  /\ clock = SeedTime
  /\ runs = 0
  /\ pc = [p \in Procs |-> "idle"]
  /\ cmd = [p \in Procs |-> NoCmd]
  /\ elapsed = [p \in Procs |-> 0]
  /\ state = [p \in Procs |-> DefaultState]
  /\ loaded = [p \in Procs |-> DefaultState]
  /\ started = [p \in Procs |-> <<>>]
  /\ parallel_results = [p \in Procs |-> <<>>]
  /\ next = [p \in Procs |-> 1]
  /\ results = [p \in Procs |-> <<>>]
  /\ notifications = [p \in Procs |-> <<>>]
  /\ outbox = [p \in Procs |-> <<>>]
  /\ delivery_failed = [p \in Procs |-> FALSE]
  /\ wrote = [p \in Procs |-> FALSE]
  /\ exit = [p \in Procs |-> NoneStr]
  /\ classified = NoClassification

\* main: one more invocation begins and reaches state::load_state
Invoke(p) ==
  /\ LowestIdle(p)
  /\ pc' = [pc EXCEPT ![p] = "acquire"]
  /\ UNCHANGED <<config, classified, disk, lockHolder, clock, runs, cmd, elapsed, state,
                 loaded, started, parallel_results, next, results, notifications,
                 outbox, delivery_failed, wrote, exit>>

\* load_state, once the lock is held, in a notify run
notify_load_state(p, c) ==
  /\ pc[p] = "load"
  /\ cmd' = [cmd EXCEPT ![p] = c]
  /\ IF ~ disk.exists
     THEN /\ state' = [state EXCEPT ![p] = DefaultState]
          /\ loaded' = [loaded EXCEPT ![p] = DefaultState]
          /\ pc' = [pc EXCEPT ![p] = "body"]
          /\ UNCHANGED exit
     ELSE IF ParseOk(disk.content)
     THEN /\ state' = [state EXCEPT ![p] = Deserialize(disk.content)]
          /\ loaded' = [loaded EXCEPT ![p] = Deserialize(disk.content)]
          /\ pc' = [pc EXCEPT ![p] = "body"]
          /\ UNCHANGED exit
     ELSE /\ Return(p, "Json")
          /\ UNCHANGED <<state, loaded>>
  /\ UNCHANGED <<config, classified, disk, lockHolder, clock, runs, elapsed,
                 started, parallel_results, next, results, notifications, outbox,
                 delivery_failed, wrote>>

NextLive ==
  \/ \E p \in Procs : Invoke(p)
  \/ \E p \in Procs : acquire(p)
  \/ \E p \in Procs, c \in NotifyCommands : notify_load_state(p, c)
  \/ \E p \in Procs, k \in 0..NumSubjects : run_notify(p, k)
  \/ \E p \in Procs : save_state_create(p)
  \/ \E p \in Procs : save_state_write(p)
  \/ \E p \in Procs : save_state_error(p)
  \/ \E p \in Procs : Exit(p)

\* a step of process p
Step(p) ==
  \/ Invoke(p) \/ acquire(p)
  \/ \E c \in NotifyCommands : notify_load_state(p, c)
  \/ \E k \in 0..NumSubjects : run_notify(p, k)
  \/ save_state_create(p) \/ save_state_write(p) \/ Exit(p)

\* every send_email call of the run returns Ok
DeliverySucceeds(p) ==
  \E k \in 0..NumSubjects : run_notify(p, k) /\ pc'[p] = "save" /\ ~ delivery_failed'[p]

\* try_lock_exclusive returns Ok
LockAcquired(p) == acquire(p) /\ lockHolder' = p

\* notify is invoked again and again and every invocation runs on; each
\* invocation that keeps asking for the lock gets it at some point, and of the
\* runs that keep reaching the sends one has all its sends accepted
SpecLive ==
  /\ InitLive /\ [][NextLive]_vars
  /\ \A p \in Procs : WF_vars(Step(p))
  /\ \A p \in Procs : SF_vars(LockAcquired(p))
  /\ \A p \in Procs : SF_vars(DeliverySucceeds(p))

\* the notification is in the queue of the document on disk
InPersistedQueue(n) ==
  /\ disk.exists /\ ParseOk(disk.content)
  /\ n \in Range(Deserialize(disk.content).pending_notifications)

\* a notify run has delivered the notification and saved a queue without it
DeliveredAndRemoved(n) ==
  /\ disk.exists /\ ParseOk(disk.content)
  /\ n \notin Range(Deserialize(disk.content).pending_notifications)
  /\ \E p \in Procs : Saved(p) /\ n \in Delivered(p)

\* state.json is left without a complete document and nobody is writing it
Torn == lockHolder = 0 /\ Malformed

\* C40: every notification queued by a check run with --no-notify is
\* eventually delivered and then removed from the persisted queue, when notify
\* keeps being invoked without --dry-run, each invocation eventually gets the
\* lock, delivery eventually succeeds and no full state reset runs.
C40_QueuedEventuallyDelivered ==
  \A n \in Range(SeedState.pending_notifications) :
    InPersistedQueue(n) ~> DeliveredAndRemoved(n)

\* the part of C40 that holds of the code: the notification is delivered and
\* removed unless a save that was cut short leaves no document to load
C40_DeliveredUnlessTorn ==
  \A n \in Range(SeedState.pending_notifications) :
    InPersistedQueue(n) ~> (DeliveredAndRemoved(n) \/ Torn)

====
